---- MODULE Spec2Model ----
(***************************************************************************)
(* Tensor ICP registration of Open3D (t::pipelines::registration) and the  *)
(* CPU point-to-plane accumulation kernel (t::pipelines::kernel).          *)
(*                                                                         *)
(* Numbers: point coordinates, matrix entries and squared distances are    *)
(* integers, so every sum and product is exact.  A double that the code    *)
(* obtains by a division is kept as the exact fraction n/d, a double it    *)
(* obtains by std::sqrt is kept as the root of a fraction, and the result  *)
(* of 0.0/0.0 is the value NaN, for which every comparison is false.       *)
(* Indices are 1-based here and 0-based in the code.                       *)
(***************************************************************************)
EXTENDS Integers, Sequences, FiniteSets, Bags, TLC

\* ---------------------------------------------------------------- bounds
\* Largest criteria.max_iteration_ the model enumerates.
MaxIter == 2

\* ------------------------------------------------------- double arithmetic
\* static_cast<double>(x) / static_cast<double>(y) for integers x, y >= 0.
\* 0.0/0.0 is NaN; x/0.0 with x > 0 (infinity) needs a non-empty
\* correspondence set of size 0 and is kept as NaN's sibling "inf".
DDiv(x, y) ==
    IF y = 0 THEN [nan |-> (x = 0), inf |-> (x # 0), n |-> 0, d |-> 1]
             ELSE [nan |-> FALSE, inf |-> FALSE, n |-> x, d |-> y]

\* The double literal 0.0.
DZero == [nan |-> FALSE, inf |-> FALSE, n |-> 0, d |-> 1]

\* std::sqrt of a double q >= 0: the root of the fraction, kept symbolically
\* as its radicand; sqrt(NaN) = NaN, sqrt(inf) = inf.
DSqrt(q) == [nan |-> q.nan, inf |-> q.inf, rad_n |-> q.n, rad_d |-> q.d]

\* std::abs(a - b) < r for two fractions a, b and a threshold r = p/q
\* (q > 0): |a.n/a.d - b.n/b.d| < p/q, cross-multiplied; false on NaN.
AbsInt(x) == IF x < 0 THEN -x ELSE x

\* AbsDiffLess with <= in place of <.
AbsDiffLess_OrEqual(a, b, r) ==
    /\ ~a.nan /\ ~b.nan
    /\ ~a.inf /\ ~b.inf
    /\ AbsInt(a.n * b.d - b.n * a.d) * r.q <= r.p * a.d * b.d

AbsDiffLess(a, b, r) ==
    /\ ~a.nan /\ ~b.nan
    /\ ~a.inf /\ ~b.inf
    /\ AbsInt(a.n * b.d - b.n * a.d) * r.q < r.p * a.d * b.d

\* std::abs(sqrt(x) - sqrt(y)) < r for two roots and a threshold r = p/q:
\* false for r <= 0 and on NaN; otherwise x + y - r^2 < 2 sqrt(x y), i.e.
\* S < 0 or S^2 < 4 x y with S = x + y - r^2, all over the common
\* denominator x.d * y.d * q^2.
RootAbsDiffLess(x, y, r) ==
    /\ ~x.nan /\ ~y.nan
    /\ ~x.inf /\ ~y.inf
    /\ r.p > 0
    /\ LET S == x.rad_n * y.rad_d * r.q * r.q
                + y.rad_n * x.rad_d * r.q * r.q
                - r.p * r.p * x.rad_d * y.rad_d
       IN  \/ S < 0
           \/ S * S < 4 * x.rad_n * y.rad_n * x.rad_d * y.rad_d
                        * r.q * r.q * r.q * r.q

\* ------------------------------------------------------------ 4x4 tensors
\* A 4x4 transformation: nan is set once an entry is NaN (then m is the
\* zero matrix, the entries carry no information).
Mat(m) == [nan |-> FALSE, m |-> m]

ZeroM == << <<0,0,0,0>>, <<0,0,0,0>>, <<0,0,0,0>>, <<0,0,0,0>> >>

NaNT == [nan |-> TRUE, m |-> ZeroM]

Eye == Mat(<< <<1,0,0,0>>, <<0,1,0,0>>, <<0,0,1,0>>, <<0,0,0,1>> >>)

\* Translation by (x, y, z).
Trans(x, y, z) ==
    Mat(<< <<1,0,0,x>>, <<0,1,0,y>>, <<0,0,1,z>>, <<0,0,0,1>> >>)

\* Rotation by 90 degrees about the z axis.
RotZ90 == Mat(<< <<0,-1,0,0>>, <<1,0,0,0>>, <<0,0,1,0>>, <<0,0,0,1>> >>)

\* Entry (r, c) of the matrix product a * b.
MatmulEntry(a, b, r, c) ==
    a[r][1] * b[1][c] + a[r][2] * b[2][c]
  + a[r][3] * b[3][c] + a[r][4] * b[4][c]

MatmulRow(a, b, r) ==
    << MatmulEntry(a, b, r, 1), MatmulEntry(a, b, r, 2),
       MatmulEntry(a, b, r, 3), MatmulEntry(a, b, r, 4) >>

\* Tensor::Matmul, a.Matmul(b) = a * b; NaN is absorbing.
Matmul(a, b) ==
    IF a.nan \/ b.nan THEN NaNT
    ELSE Mat(<< MatmulRow(a.m, b.m, 1), MatmulRow(a.m, b.m, 2),
                MatmulRow(a.m, b.m, 3), MatmulRow(a.m, b.m, 4) >>)

\* ------------------------------------------------------------ 3x3 tensors
Eye3 == << <<1, 0, 0>>, <<0, 1, 0>>, <<0, 0, 1>> >>

\* Tensor::T of a 3x3 tensor.
T3(a) == << <<a[1][1], a[2][1], a[3][1]>>,
            <<a[1][2], a[2][2], a[3][2]>>,
            <<a[1][3], a[2][3], a[3][3]>> >>

\* Tensor::Matmul of two 3x3 tensors.
Matmul3Entry(a, b, r, c) ==
    a[r][1] * b[1][c] + a[r][2] * b[2][c] + a[r][3] * b[3][c]

Matmul3(a, b) ==
    << <<Matmul3Entry(a, b, 1, 1), Matmul3Entry(a, b, 1, 2),
         Matmul3Entry(a, b, 1, 3)>>,
       <<Matmul3Entry(a, b, 2, 1), Matmul3Entry(a, b, 2, 2),
         Matmul3Entry(a, b, 2, 3)>>,
       <<Matmul3Entry(a, b, 3, 1), Matmul3Entry(a, b, 3, 2),
         Matmul3Entry(a, b, 3, 3)>> >>

\* A 3x3 tensor times a vector.
MatVec3(a, v) ==
    << a[1][1] * v[1] + a[1][2] * v[2] + a[1][3] * v[3],
       a[2][1] * v[1] + a[2][2] * v[2] + a[2][3] * v[3],
       a[3][1] * v[1] + a[3][2] * v[2] + a[3][3] * v[3] >>

\* Tensor::Det of a 3x3 tensor.
Det3(a) ==
    a[1][1] * (a[2][2] * a[3][3] - a[2][3] * a[3][2])
  - a[1][2] * (a[2][1] * a[3][3] - a[2][3] * a[3][1])
  + a[1][3] * (a[2][1] * a[3][2] - a[2][2] * a[3][1])

\* The orthogonal 3x3 matrices with integer entries: one entry 1 or -1 in
\* each row and column (48 matrices, 24 of them rotations).
UnitRow(col, sign) == [c \in 1..3 |-> IF c = col THEN sign ELSE 0]

Orthogonal3 ==
    { << UnitRow(p[1], g[1]), UnitRow(p[2], g[2]), UnitRow(p[3], g[3]) >> :
        p \in { q \in [1..3 -> 1..3] : {q[1], q[2], q[3]} = 1..3 },
        g \in [1..3 -> {-1, 1}] }

Rotations3 == { a \in Orthogonal3 : Det3(a) = 1 }

\* Tensor::SVD of a 3x3 tensor m: every <<U, D, VT>> with U and VT
\* orthogonal, D the singular values (non-negative, in descending order)
\* and m = U * diag(D) * VT, that is U^T * m = diag(D) * VT.  The factors
\* are not unique (a singular vector pair can change sign together, those
\* of a zero singular value each on its own), and which ones are returned
\* is the library's choice.  Only matrices m whose singular vectors lie
\* along the axes are handled: row r of U^T * m is then D[r] times a unit
\* vector.
RowLength(row) == AbsInt(row[1]) + AbsInt(row[2]) + AbsInt(row[3])

SVDWith(U, m) ==
    LET A == Matmul3(T3(U), m)
        D == << RowLength(A[1]), RowLength(A[2]), RowLength(A[3]) >>
    IN  IF D[1] >= D[2] /\ D[2] >= D[3]
        THEN { <<U, D, VT>> :
                 VT \in { V \in Orthogonal3 :
                            \A r \in 1..3 : \A c \in 1..3 :
                                A[r][c] = D[r] * V[r][c] } }
        ELSE {}

SVD(m) == UNION { SVDWith(U, m) : U \in Orthogonal3 }

\* ------------------------------------------------------------ point clouds
\* A point cloud: the sequence of its points; nan is set once the
\* coordinates are NaN (the number of points is kept).
Cloud(pts) == [nan |-> FALSE, pts |-> pts]

NumPoints(pc_) == Len(pc_.pts)

\* PointCloud::Clone: a deep copy, the same value.
Clone(pc_) == [nan |-> pc_.nan, pts |-> pc_.pts]

\* geometry::PointCloud source_transformed = source without Clone(): a
\* copy that shares the storage of the source.
WorkingCopy_Shallow(src) == [cloud |-> src, shares |-> TRUE]

\* geometry::PointCloud source_transformed = source.Clone(): the working
\* copy, which shares no storage with the source.
WorkingCopy(src) == [cloud |-> Clone(src), shares |-> FALSE]

\* Transform works in place: what a cloud that shares its storage with
\* the transformed one (or does not) holds afterwards.
InPlace(cloud, shares, transformed) ==
    IF shares THEN transformed ELSE cloud

\* PointCloud::Transform: every point p becomes R p + t, with R the upper
\* left 3x3 block and t the last column of the transformation.
TransformCoord(T, p, k) ==
    T.m[k][1] * p[1] + T.m[k][2] * p[2] + T.m[k][3] * p[3] + T.m[k][4]

TransformPoint(T, p) ==
    << TransformCoord(T, p, 1), TransformCoord(T, p, 2),
       TransformCoord(T, p, 3) >>

RECURSIVE TransformPoints(_, _)
TransformPoints(T, pts) ==
    IF Len(pts) = 0 THEN << >>
    ELSE << TransformPoint(T, pts[1]) >> \o TransformPoints(T, Tail(pts))

RECURSIVE NaNPoints(_)
NaNPoints(pts) ==
    IF Len(pts) = 0 THEN << >>
    ELSE << <<0, 0, 0>> >> \o NaNPoints(Tail(pts))

Transform(pc_, T) ==
    IF pc_.nan \/ T.nan
    THEN [nan |-> TRUE, pts |-> NaNPoints(pc_.pts)]
    ELSE [nan |-> FALSE, pts |-> TransformPoints(T, pc_.pts)]

\* Squared Euclidean distance of two points.
SqDist(p, q) ==
    (p[1] - q[1]) * (p[1] - q[1]) + (p[2] - q[2]) * (p[2] - q[2])
  + (p[3] - q[3]) * (p[3] - q[3])

\* ------------------------------------------------- nearest neighbour search
\* Index of the target point nearest to p (the lowest index on a tie).
NearestIndex(p, tgt) ==
    CHOOSE t \in 1..Len(tgt.pts) :
        \A u \in 1..Len(tgt.pts) :
            \/ SqDist(p, tgt.pts[t]) < SqDist(p, tgt.pts[u])
            \/ SqDist(p, tgt.pts[t]) = SqDist(p, tgt.pts[u]) /\ t <= u

\* The pairs (s, nearest target of s, squared distance) of the query
\* points s, s+1, ... that are within the radius.
RECURSIVE HybridPairs(_, _, _, _)
HybridPairs(src, tgt, radius, s) ==
    IF s > Len(src.pts) THEN << >>
    ELSE (IF SqDist(src.pts[s], tgt.pts[NearestIndex(src.pts[s], tgt)])
                <= radius * radius
          THEN << << s, NearestIndex(src.pts[s], tgt),
                     SqDist(src.pts[s],
                            tgt.pts[NearestIndex(src.pts[s], tgt)]) >> >>
          ELSE << >>)
         \o HybridPairs(src, tgt, radius, s + 1)

\* Component k of every triple of a sequence.
RECURSIVE Column(_, _)
Column(triples, k) ==
    IF Len(triples) = 0 THEN << >>
    ELSE << triples[1][k] >> \o Column(Tail(triples), k)

\* NearestNeighborSearch::SqueezedHybridSearch(query, radius): for every
\* query point its nearest target point, kept when the distance is at most
\* the radius; returns the query indices, the target indices and the squared
\* distances of the kept pairs.  A query whose coordinates are NaN is within
\* the radius of nothing.
SqueezedHybridSearch(src, tgt, radius) ==
    IF src.nan \/ tgt.nan \/ Len(tgt.pts) = 0
    THEN [first |-> << >>, second |-> << >>, distances |-> << >>]
    ELSE [first     |-> Column(HybridPairs(src, tgt, radius, 1), 1),
          second    |-> Column(HybridPairs(src, tgt, radius, 1), 2),
          distances |-> Column(HybridPairs(src, tgt, radius, 1), 3)]

\* Tensor::Sum({0}) of a sequence of integers.
RECURSIVE SumSeq(_)
SumSeq(s) == IF Len(s) = 0 THEN 0 ELSE s[1] + SumSeq(Tail(s))

\* ------------------------------------------------------------ input sets
\* Thresholds relative_fitness_ and relative_rmse_ as fractions p/q.
Frac(p, q) == [p |-> p, q |-> q]

RelFits == {Frac(0, 1), Frac(1, 4), Frac(2, 1)}

RelRmses == {Frac(0, 1), Frac(1, 2), Frac(2, 1)}

MaxDists == {-1, 0, 1}

TargetA == Cloud(<< <<0, 0, 0>>, <<2, 0, 0>>, <<9, 9, 0>> >>)

SourceA == Cloud(<< <<0, 0, 0>>, <<2, 0, 0>> >>)

SourceB == Cloud(<< <<0, 5, 0>> >>)

Sources == {SourceA, SourceB}

Targets == {TargetA}

Inits == {Eye, Trans(1, 0, 0)}

\* Results a solver can return for a non-empty correspondence set.
Updates == {Eye, Trans(1, 0, 0), RotZ90}

Calls == {"RegistrationICP", "EvaluateRegistration"}

\* ICPConvergenceCriteria.
Criteria == [max_iteration_    : -1..MaxIter,
             relative_fitness_ : RelFits,
             relative_rmse_    : RelRmses]

DefaultCriteria == [max_iteration_    |-> 0,
                    relative_fitness_ |-> Frac(0, 1),
                    relative_rmse_    |-> Frac(0, 1)]

\* The arguments of one call.  src_f32, tgt_f32: the points are Float32;
\* same_device: target and source are on one device; init_shape44 and
\* init_f32: the transformation is a 4x4 Float32 tensor; index_ok: what
\* HybridIndex returns for this target.
ArgsOf(call, sf, tf, dev, shp, if32, src, tgt, init, maxd, crit, iok) ==
    [call |-> call, src_f32 |-> sf, tgt_f32 |-> tf, same_device |-> dev,
     init_shape44 |-> shp, init_f32 |-> if32, source |-> src,
     target |-> tgt, init |-> init, max_correspondence_distance |-> maxd,
     criteria |-> crit, index_ok |-> iok]

\* ------------------------------------------------------------------ state
VARIABLES
    pc,                     \* position in the call
    args,                   \* the arguments of the call
    error,                  \* the fatal error raised, "none" if none
    transformation_device,  \* cumulative transformation
    source_transformed,     \* working copy of the source
    result,                 \* RegistrationResult
    corres,                 \* CorrespondenceSet used by the next solve
    i,                      \* loop counter of RegistrationICP
    prev,                   \* prev_fitness_, prev_inliner_rmse_
    hist,                   \* what the call has done so far
    caller,                 \* the caller's source and target as they are now
    kpc,                    \* position in the point-to-plane kernel
    kin,                    \* the arguments of the kernel call
    ranges,                 \* subranges of [0, n) no body has run on yet
    partials,               \* accumulators of the bodies that have run
    rows,                   \* Hybrid: the N x 21 and N x 6 scratch rows
    ATA,                    \* the 6x6 tensor ATA, row-major
    ATB,                    \* the 6x1 tensor ATB
    khist,                  \* what the kernel call has done so far
    cpc,                    \* position in the CUDA point-to-plane call
    cn,                     \* n of the CUDA call
    grid,                   \* blockIdx of the blocks that have not run yet
    global_sum,             \* the terms added to global_sum so far
    epc,                    \* position in a call of a TransformationEstimation
    ein,                    \* the arguments of that call
    eout,                   \* what the call computed and returned
    dpc,                    \* position in the demo window's run
    cfg,                    \* what ReadConfigFile read
    pointclouds_device_,    \* the clouds loaded
    frame,                  \* the loop index of UpdateMain, -1 in the warm-up
    cumulative_transform,   \* of UpdateMain
    level,                  \* the pyramid level of RegistrationMultiScaleICP
    seeds,                  \* the initial guess each level was started with
    finals,                 \* the transformation each level returned
    upc,                    \* position of the update thread in UpdateMain
    wcfg,                   \* end_range_ and visualize_output_
    update_i,               \* the loop variable i of UpdateMain
    mat_alive,              \* mat and pointcloud_mat of UpdateMain exist
    pcd_,                   \* the frame whose cloud pcd_ holds
    posted,                 \* callbacks posted to the main thread, in order
    running,                \* the callback the main thread is running
    seen                    \* what the last callback run read

\* The state of a registration call and of a kernel call.
rvars == <<pc, args, error, transformation_device, source_transformed,
           result, corres, i, prev, hist, caller>>

kvars == <<kpc, kin, ranges, partials, rows, ATA, ATB, khist>>

cvars == <<cpc, cn, grid, global_sum>>

evars == <<epc, ein, eout>>

dvars == <<dpc, cfg, pointclouds_device_, frame, cumulative_transform,
           level, seeds, finals>>

\* What a registration call, a CPU kernel call, a CUDA kernel call and a
\* call of a TransformationEstimation leave alone.
wvars == <<upc, wcfg, update_i, mat_alive, pcd_, posted, running, seen>>

beyondR == <<kvars, cvars, evars, dvars, wvars>>
beyondK == <<rvars, cvars, evars, dvars, wvars>>
beyondC == <<rvars, kvars, evars, dvars, wvars>>
beyondE == <<rvars, kvars, cvars, dvars, wvars>>
beyondD == <<kvars, cvars, evars, wvars>>
beyondW == <<rvars, kvars, cvars, evars, dvars>>

vars == <<rvars, kvars, cvars, evars, dvars, wvars>>

\* ------------------------------------------------------ registration code
\* CheckInputs without the AssertShape on the transformation.
CheckInputs_NoShape(a) ==
    IF ~a.src_f32 THEN "dtype"
    ELSE IF ~a.tgt_f32 THEN "dtype"
    ELSE IF ~a.same_device THEN "device"
    ELSE IF ~a.init_f32 THEN "dtype"
    ELSE "none"

\* The precondition checks at entry: AssertDtype on the source and target
\* points, the device comparison, AssertShape and AssertDtype on the
\* transformation, in this order; the first failing one raises.
CheckInputs(a) ==
    IF ~a.src_f32 THEN "dtype"
    ELSE IF ~a.tgt_f32 THEN "dtype"
    ELSE IF ~a.same_device THEN "device"
    ELSE IF ~a.init_shape44 THEN "shape"
    ELSE IF ~a.init_f32 THEN "dtype"
    ELSE "none"

EmptyCorres == [first |-> << >>, second |-> << >>]

\* RegistrationResult(transformation): no correspondences, fitness and
\* inlier RMSE 0.
RegistrationResult(T) ==
    [transformation_    |-> T,
     correspondence_set |-> EmptyCorres,
     fitness_           |-> DZero,
     inlier_rmse_       |-> DSqrt(DZero)]

\* NoSearch with < in place of <=.
NoSearch_Strict(maxd) == maxd < 0

\* max_correspondence_distance <= 0.0: the short circuit of the
\* correspondence step.
NoSearch(maxd) == maxd <= 0

\* IndexFailed with the test inverted.
IndexFailed_Inverted(check) == check

\* if (!check): HybridIndex returned false, LogError throws.
IndexFailed(check) == ~check

\* Fitness dividing by the number of target points.
Fitness_ByTarget(num_correspondences, src, tgt) ==
    DDiv(num_correspondences, NumPoints(tgt))

\* Fitness dividing by the number of correspondences.
Fitness_ByCorrespondences(num_correspondences, src, tgt) ==
    DDiv(num_correspondences, num_correspondences)

\* result.fitness_: the number of correspondences over the number of
\* source points.
Fitness(num_correspondences, src, tgt) ==
    DDiv(num_correspondences, NumPoints(src))

\* result.inlier_rmse_: root of the summed squared distances over the
\* number of correspondences.
InlierRmse(squared_error, num_correspondences) ==
    DSqrt(DDiv(squared_error, num_correspondences))

\* GetRegistrationResultAndCorrespondences.  error: the fatal error raised
\* ("none" if it returns); indexed, searched: whether HybridIndex and
\* SqueezedHybridSearch were called; result: the value returned.
GetRegistrationResultAndCorrespondences(src, tgt, a, transformation) ==
    LET maxd == a.max_correspondence_distance
        chk  == CheckInputs(a)
        r0   == RegistrationResult(transformation)
        s    == SqueezedHybridSearch(src, tgt, maxd)
        C    == Len(s.first)
    IN  IF chk # "none"
        THEN [error |-> chk, indexed |-> FALSE, searched |-> FALSE,
              result |-> r0]
        ELSE IF NoSearch(maxd)
        THEN [error |-> "none", indexed |-> FALSE, searched |-> FALSE,
              result |-> r0]
        ELSE IF IndexFailed(a.index_ok)
        THEN [error |-> "index", indexed |-> TRUE, searched |-> FALSE,
              result |-> r0]
        ELSE [error |-> "none", indexed |-> TRUE, searched |-> TRUE,
              result |->
                [transformation_    |-> transformation,
                 correspondence_set |-> [first  |-> s.first,
                                         second |-> s.second],
                 fitness_           |-> Fitness(C, src, tgt),
                 inlier_rmse_       |-> InlierRmse(SumSeq(s.distances), C)]]

\* estimation.ComputeTransformation(source, target, corres): the set of
\* transformations it can return.  With C = 0 correspondences the
\* point-to-point solver takes the mean of no points and divides the
\* cross-covariance by static_cast<float>(C) = 0: every entry of the
\* returned transformation is NaN.  With C > 0 the solver is left open:
\* any of Updates.
ComputeTransformation(src, tgt, cs) ==
    IF Len(cs.second) = 0 THEN {NaNT} ELSE Updates

\* Accumulate multiplying the update from the right.
Accumulate_Right(update, cumulative) == Matmul(cumulative, update)

\* transformation_device = update.Matmul(transformation_device).
Accumulate(update, cumulative) == Matmul(update, cumulative)

\* Converged with || in place of &&.
Converged_Either(prev_fitness_, prev_inliner_rmse_, res, crit) ==
    \/ AbsDiffLess(prev_fitness_, res.fitness_, crit.relative_fitness_)
    \/ RootAbsDiffLess(prev_inliner_rmse_, res.inlier_rmse_,
                       crit.relative_rmse_)

\* The convergence test of the loop.
Converged(prev_fitness_, prev_inliner_rmse_, res, crit) ==
    /\ AbsDiffLess(prev_fitness_, res.fitness_, crit.relative_fitness_)
    /\ RootAbsDiffLess(prev_inliner_rmse_, res.inlier_rmse_,
                       crit.relative_rmse_)

\* LoopCond with != in place of <.
LoopCond_NotEqual(k, crit) == k # crit.max_iteration_

\* LoopCond with <= in place of <.
LoopCond_Inclusive(k, crit) == k <= crit.max_iteration_

\* The loop condition i < criteria.max_iteration_.
LoopCond(k, crit) == k < crit.max_iteration_

\* ------------------------------------------- point-to-plane kernel (CPU)
\* Largest number n of correspondences of a kernel call.
MaxN == 3

\* The content of memory obtained by Tensor::Empty: any value.
Garbage == {0, 7}

Zeros(len) == IF len = 6 THEN <<0, 0, 0, 0, 0, 0>>
              ELSE <<0, 0, 0, 0, 0, 0, 0, 0, 0, 0, 0, 0, 0, 0,
                     0, 0, 0, 0, 0, 0, 0, 0, 0, 0, 0, 0, 0>>

\* std::vector<float> zeros_27(27, 0.0).
zeros_27 == Zeros(27)

\* A 27, 36 or 6 element buffer filled with the value g.
Filled(len, g) == [q \in 1..len |-> g]

\* ai with the operands of its first component exchanged (n_t x p_s).
ai_SignError(sx, sy, sz, nx, ny, nz) ==
    << ny * sz - nz * sy, nx * sz - nz * sx, ny * sx - nx * sy, nx, ny, nz >>

\* float ai[] of one correspondence.
ai(sx, sy, sz, nx, ny, nz) ==
    << nz * sy - ny * sz, nx * sz - nz * sx, ny * sx - nx * sy, nx, ny, nz >>

\* bi, the residual of one correspondence.
bi(sx, sy, sz, tx, ty, tz, nx, ny, nz) ==
    (tx - sx) * nx + (ty - sy) * ny + (tz - sz) * nz

\* ai and bi of work item workload_idx (0-based), read through
\* source_index = 3 * correspondence_first[workload_idx] and
\* target_index = 3 * correspondence_second[workload_idx].
RowOf(a, workload_idx) ==
    ai(a.source_points_ptr[3 * a.correspondence_first[workload_idx + 1] + 1],
       a.source_points_ptr[3 * a.correspondence_first[workload_idx + 1] + 2],
       a.source_points_ptr[3 * a.correspondence_first[workload_idx + 1] + 3],
       a.target_normals_ptr[3 * a.correspondence_second[workload_idx + 1] + 1],
       a.target_normals_ptr[3 * a.correspondence_second[workload_idx + 1] + 2],
       a.target_normals_ptr[3 * a.correspondence_second[workload_idx + 1] + 3])

ResidualOf(a, workload_idx) ==
    bi(a.source_points_ptr[3 * a.correspondence_first[workload_idx + 1] + 1],
       a.source_points_ptr[3 * a.correspondence_first[workload_idx + 1] + 2],
       a.source_points_ptr[3 * a.correspondence_first[workload_idx + 1] + 3],
       a.target_points_ptr[3 * a.correspondence_second[workload_idx + 1] + 1],
       a.target_points_ptr[3 * a.correspondence_second[workload_idx + 1] + 2],
       a.target_points_ptr[3 * a.correspondence_second[workload_idx + 1] + 3],
       a.target_normals_ptr[3 * a.correspondence_second[workload_idx + 1] + 1],
       a.target_normals_ptr[3 * a.correspondence_second[workload_idx + 1] + 2],
       a.target_normals_ptr[3 * a.correspondence_second[workload_idx + 1] + 3])

\* for (int i = 0, j = 0; j < 6; j++) { for (int k = 0; k <= j; k++) {
\* ...; i++; } ... }: the pairs <<j, k>> in the order the loop visits
\* them; the pair at position i + 1 is the one visited with counter i.
RECURSIVE LoopPairs(_, _)
LoopPairs(j, k) ==
    IF j >= 6 THEN << >>
    ELSE IF k <= j THEN << <<j, k>> >> \o LoopPairs(j, k + 1)
    ELSE LoopPairs(j + 1, 0)

PackOrder == LoopPairs(0, 0)

\* The loop applied to total for one correspondence:
\* total[i] op ai[j] * ai[k] for the pair of counter i, and
\* total[21 + j] op ai[j] * bi, with op "+=" (add) or "=" (the Hybrid
\* scratch rows).
PackLoop(total, a_, b_, add) ==
    [q \in 1..27 |->
        (IF add THEN total[q] ELSE 0) +
        (IF q <= 21
         THEN a_[PackOrder[q][1] + 1] * a_[PackOrder[q][2] + 1]
         ELSE a_[q - 21] * b_)]

\* The body of the reduction on the subrange [lo, hi), started from
\* running_total: one PackLoop per work item.
RECURSIVE Body(_, _, _, _)
Body(a, running_total, lo, hi) ==
    IF lo >= hi THEN running_total
    ELSE Body(a, PackLoop(running_total, RowOf(a, lo), ResidualOf(a, lo),
                          TRUE),
              lo + 1, hi)

\* ScratchRow adding to what Empty left in the row.
ScratchRow_Accumulate(a, workload_idx) ==
    PackLoop(Filled(27, a.garbage), RowOf(a, workload_idx),
             ResidualOf(a, workload_idx), TRUE)

\* Hybrid, first loop: row workload_idx of ata_Nx21 and atb_Nx6 (one
\* 27 element row here), written with "=" over whatever Empty left there.
ScratchRow(a, workload_idx) ==
    PackLoop(Filled(27, a.garbage), RowOf(a, workload_idx),
             ResidualOf(a, workload_idx), FALSE)

\* Slot without the row offset: every work item uses row 0.
Slot_NoStride(workload_idx, width, q) == q

\* The offset workload_idx * 21 + i into ata_Nx21 and workload_idx * 6 + j
\* into atb_Nx6 (width 21 or 6).
Slot(workload_idx, width, q) == workload_idx * width + q

\* The two scratch arrays after work item workload_idx has written its
\* 21 and 6 values into them.
WriteScratch(rws, a, workload_idx) ==
    [ata_Nx21 |->
        [q \in 1..Len(rws.ata_Nx21) |->
            IF \E c \in 0..20 : Slot(workload_idx, 21, c) + 1 = q
            THEN ScratchRow(a, workload_idx)[
                    (CHOOSE c \in 0..20 : Slot(workload_idx, 21, c) + 1 = q)
                    + 1]
            ELSE rws.ata_Nx21[q]],
     atb_Nx6 |->
        [q \in 1..Len(rws.atb_Nx6) |->
            IF \E c \in 0..5 : Slot(workload_idx, 6, c) + 1 = q
            THEN ScratchRow(a, workload_idx)[
                    (CHOOSE c \in 0..5 : Slot(workload_idx, 6, c) + 1 = q)
                    + 22]
            ELSE rws.atb_Nx6[q]]]

\* Row i of the scratch arrays as the reduction reads it:
\* ata_Nx21[i * 21 + j], j < 21, then atb_Nx6[i * 6 + j], j < 6.
ReadRow(rws, row) ==
    [j \in 1..27 |->
        IF j <= 21 THEN rws.ata_Nx21[Slot(row, 21, j - 1) + 1]
        ELSE rws.atb_Nx6[Slot(row, 6, j - 22) + 1]]

\* Hybrid, the body of the reduction over the scratch rows of [lo, hi):
\* for j < 21, running_total[j] += ata row[j]; for j < 6,
\* running_total[21 + j] += atb row[j].
AddRow(total, row) == [j \in 1..27 |-> total[j] + row[j]]

RECURSIVE RowsBody(_, _, _, _)
RowsBody(rws, running_total, lo, hi) ==
    IF lo >= hi THEN running_total
    ELSE RowsBody(rws, AddRow(running_total, ReadRow(rws, lo)), lo + 1, hi)

\* Join adding only the 21 ATA entries.
Join_Only21(a_, b_) ==
    [j \in 1..27 |-> IF j <= 21 THEN a_[j] + b_[j] ELSE a_[j]]

\* The join of two partial results: result[j] = a[j] + b[j], j < 27 (for
\* OpenMP the + of the reduction clause on the private copies).
Join(a_, b_) == [j \in 1..27 |-> a_[j] + b_[j]]

\* UnpackATA without the mirrored write ata_ptr[k * 6 + j] = v[i].
UnpackATA_LowerOnly(ata_ptr, v) ==
    [q \in 1..Len(ata_ptr) |->
        LET W == { p \in 1..Len(PackOrder) :
                     PackOrder[p][1] * 6 + PackOrder[p][2] + 1 = q }
        IN  IF W = {} THEN ata_ptr[q]
            ELSE v[CHOOSE p \in W : \A r \in W : r <= p]]

\* for (int i = 0, j = 0; j < 6; j++) { for (int k = 0; k <= j; k++)
\* { ata_ptr[j * 6 + k] = v[i]; ata_ptr[k * 6 + j] = v[i]; i++; } }
\* W: the counters i (plus one) of the passes that write element q, the
\* pass for the pair (j, k) writing ata_ptr[j * 6 + k] and
\* ata_ptr[k * 6 + j].  Every element holds what the last pass that wrote
\* it stored, and what it held before if no pass wrote it.
UnpackATA(ata_ptr, v) ==
    [q \in 1..Len(ata_ptr) |->
        LET W == { p \in 1..Len(PackOrder) :
                     \/ PackOrder[p][1] * 6 + PackOrder[p][2] + 1 = q
                     \/ PackOrder[p][2] * 6 + PackOrder[p][1] + 1 = q }
        IN  IF W = {} THEN ata_ptr[q]
            ELSE v[CHOOSE p \in W : \A r \in W : r <= p]]

\* atb_ptr[j] = v[j + 21], j < 6 (TBB, Hybrid); for OpenMP atb_ptr is the
\* reduced array itself.
UnpackATB(atb_ptr, v) ==
    [q \in 1..Len(atb_ptr) |-> IF q <= 6 THEN v[q + 21] ELSE atb_ptr[q]]

\* The arguments of a kernel call with n correspondences: the point and
\* normal buffers (three floats per point) and the two index arrays.
KSourcePoints(n) ==
    [q \in 1..(3 * n) |->
        LET s == (q - 1) \div 3
            c == (q - 1) % 3
        IN  IF c = 0 THEN s + 1 ELSE IF c = 1 THEN 2 - s ELSE s * s - 1]

KTargetPoints == <<2, 0, 1, 1, 1, 1>>

KTargetNormals == <<0, 0, 1, 1, -1, 2>>

\* Correspondence sets of size n: n of the MaxN source points, in
\* increasing order of their index.
RECURSIVE IncreasingSeqs(_, _)
IncreasingSeqs(n, lo) ==
    IF n = 0 THEN {<< >>}
    ELSE UNION { { <<f>> \o rest : rest \in IncreasingSeqs(n - 1, f + 1) } :
                 f \in lo..(MaxN - n) }

\* The target point found for each source point of cf: the two target
\* points in turn.
TargetsOf(cf) == [q \in 1..Len(cf) |-> cf[q] % 2]

Variants == {"OpenMP", "TBB", "Hybrid"}

KernelArgs ==
    UNION { { [variant |-> v, n |-> n,
               garbage |-> IF v = "OpenMP" THEN 0 ELSE g,
               source_points_ptr |-> KSourcePoints(MaxN),
               target_points_ptr |-> KTargetPoints,
               target_normals_ptr |-> KTargetNormals,
               correspondence_first |-> cf,
               correspondence_second |-> TargetsOf(cf)] :
              v \in Variants, g \in Garbage, cf \in IncreasingSeqs(n, 0) } :
            n \in 0..MaxN }

\* The number of workers (threads, tasks) the runtime has for a call with
\* n correspondences.
WorkerCounts(n) == {1, 2, 8} \cup ({n} \ {0})

\* The ways a runtime can split [0, n) into consecutive non-empty
\* subranges <<lo, hi>>, as the sequence of the subranges in order.
RECURSIVE Splits(_, _)
Splits(lo, n) ==
    IF lo >= n THEN {<< >>}
    ELSE UNION { { << <<lo, hi>> >> \o rest : rest \in Splits(hi, n) } :
                 hi \in (lo + 1)..n }

\* The subranges of a split sp together with e empty subranges <<n, n>>,
\* as the bag of the subranges not yet taken by a worker.
RangeBag(sp, e, n) ==
    SetToBag({ sp[q] : q \in 1..Len(sp) }) (+)
    (IF e = 0 THEN EmptyBag ELSE [r \in { <<n, n>> } |-> e])

\* The bag with the one element x.
One(x) == SetToBag({x})

NoKernelArgs ==
    [variant |-> "OpenMP", n |-> 0, garbage |-> 0,
     source_points_ptr |-> KSourcePoints(MaxN),
     target_points_ptr |-> KTargetPoints,
     target_normals_ptr |-> KTargetNormals,
     correspondence_first |-> << >>, correspondence_second |-> << >>]

NoKHist == [workers |-> 0, chunks |-> 0, joined |-> FALSE, filled |-> {}]

\* Before the kernel is called.
KernelIdle ==
    /\ kpc = "idle"
    /\ kin = NoKernelArgs
    /\ ranges = EmptyBag
    /\ partials = EmptyBag
    /\ rows = [ata_Nx21 |-> << >>, atb_Nx6 |-> << >>]
    /\ ATA = Filled(36, 0)
    /\ ATB = Filled(6, 0)
    /\ khist = NoKHist

\* ------------------------------------------ point-to-plane kernel (CUDA)
\* Largest number of blocks of a CUDA launch.
MaxBlocks == 2

THREAD_1D_UNIT == 256

\* const dim3 blocks((n + THREAD_1D_UNIT - 1) / THREAD_1D_UNIT).
Blocks(n) == (n + THREAD_1D_UNIT - 1) \div THREAD_1D_UNIT

\* The values of n of a CUDA call.
CudaSizes == 1..(MaxBlocks * THREAD_1D_UNIT)

\* const int tid = threadIdx.x + threadIdx.y * blockDim.x.
tid(blockIdx_x, threadIdx_x, threadIdx_y, blockDim_x) ==
    threadIdx_x + threadIdx_y * blockDim_x

\* The threads of a block launched with threads(THREAD_1D_UNIT): threadIdx.y
\* is 0 and blockDim.x is THREAD_1D_UNIT.  The workload indices whose
\* J[i] * J[j] and J[i] * r reach the reduction: a thread with tid >= n
\* returns before it.
BlockWorkloads(blockIdx_x, n) ==
    { tid(blockIdx_x, x, 0, THREAD_1D_UNIT) : x \in 0..(THREAD_1D_UNIT - 1) }
        \cap 0..(n - 1)

\* ReduceSum6x6LinearSystem: the reduction[] of the threads of the block
\* that reached it are summed and the sum is added to global_sum; a sum
\* is kept as the bag of the workload indices whose terms it holds.
ReduceSum6x6LinearSystem(sum, workloads) == sum (+) SetToBag(workloads)

\* Before the CUDA path is called.
CudaIdle ==
    /\ cpc = "idle"
    /\ cn = 0
    /\ grid = {}
    /\ global_sum = EmptyBag

\* ------------------------------------------- transformation estimation
\* Tensor::IndexGet on the rows of a {N, 3} tensor (0-based indices).
IndexGet(pts, idx) == [q \in 1..Len(idx) |-> pts[idx[q] + 1]]

\* The sum of column k of a {C, 3} tensor.
RECURSIVE SumColumn(_, _)
SumColumn(sel, k) ==
    IF Len(sel) = 0 THEN 0 ELSE sel[1][k] + SumColumn(Tail(sel), k)

\* Tensor::Mean({0}, true) of a {C, 3} tensor with C >= 1.  The inputs
\* are chosen so that every quotient is a whole number.
Mean(sel) ==
    << SumColumn(sel, 1) \div Len(sel), SumColumn(sel, 2) \div Len(sel),
       SumColumn(sel, 3) \div Len(sel) >>

\* Entry (a, b) of (target_select - muy).T().Matmul(source_select - mux).
RECURSIVE CrossSum(_, _, _, _, _, _)
CrossSum(target_select, muy, source_select, mux, a, b) ==
    IF Len(target_select) = 0 THEN 0
    ELSE (target_select[1][a] - muy[a]) * (source_select[1][b] - mux[b])
         + CrossSum(Tail(target_select), muy, Tail(source_select), mux, a, b)

\* core::Tensor Sxy: the product above, .Div_(C).
SxyOf(target_select, muy, source_select, mux) ==
    [a \in 1..3 |-> [b \in 1..3 |->
        CrossSum(target_select, muy, source_select, mux, a, b)
            \div Len(target_select)]]

\* S with the correction never applied.
SOf_Never(U, VT) == Eye3

\* core::Tensor S = Eye(3); if (U.Det() * (VT.T()).Det() < 0) S[-1][-1] = -1.
SOf(U, VT) ==
    IF Det3(U) * Det3(T3(VT)) < 0
    THEN << <<1, 0, 0>>, <<0, 1, 0>>, <<0, 0, -1>> >>
    ELSE Eye3

\* t without the rotation of mux.
tOf_Unrotated(muy, R_, mux) == << muy[1] - mux[1], muy[2] - mux[2],
                                  muy[3] - mux[3] >>

\* t = muy.Reshape({-1}) - R.Matmul(mux.T()).Reshape({-1}).
tOf(muy, R_, mux) ==
    << muy[1] - MatVec3(R_, mux)[1], muy[2] - MatVec3(R_, mux)[2],
       muy[3] - MatVec3(R_, mux)[3] >>

\* kernel::RtToTransformation: the {4,4} tensor [R t; 0 0 0 1].
RtToTransformation(R_, t_) ==
    Mat(<< <<R_[1][1], R_[1][2], R_[1][3], t_[1]>>,
           <<R_[2][1], R_[2][2], R_[2][3], t_[2]>>,
           <<R_[3][1], R_[3][2], R_[3][3], t_[3]>>,
           <<0, 0, 0, 1>> >>)

\* TransformationEstimationPointToPoint::ComputeTransformation for one
\* outcome f = <<U, D, VT>> of Sxy.SVD(): what it computes on the way and
\* the transformation it returns.
PointToPointSolve(a, f) ==
    LET source_select == IndexGet(a.source, a.first)
        target_select == IndexGet(a.target, a.second)
        mux == Mean(source_select)
        muy == Mean(target_select)
        S  == SOf(f[1], f[3])
        R_ == Matmul3(f[1], Matmul3(S, f[3]))
        t_ == tOf(muy, R_, mux)
    IN  [U |-> f[1], D |-> f[2], VT |-> f[3], S |-> S, R |-> R_, t |-> t_,
         transformation |-> RtToTransformation(R_, t_)]

\* The Sxy of the call.
SxyOfCall(a) ==
    SxyOf(IndexGet(a.target, a.second), Mean(IndexGet(a.target, a.second)),
          IndexGet(a.source, a.first), Mean(IndexGet(a.source, a.first)))

\* Sum over the C rows of the squares of the entries of
\* source_select - target_select.
RECURSIVE SquaredError(_, _)
SquaredError(source_select, target_select) ==
    IF Len(source_select) = 0 THEN 0
    ELSE SqDist(source_select[1], target_select[1])
         + SquaredError(Tail(source_select), Tail(target_select))

\* TransformationEstimationPointToPoint::ComputeRMSE past its checks.
PointToPointRMSE(source, target, first, second) ==
    DSqrt(DDiv(SquaredError(IndexGet(source, first), IndexGet(target, second)),
               Len(second)))

\* One row of error_t = (source_select - target_select).Mul_(target_n_select)
\* after error_t.Mul_(error_t), summed over its three entries: Mul_ is the
\* element-wise product.
PlaneRow(p, q, n) ==
    ((p[1] - q[1]) * n[1]) * ((p[1] - q[1]) * n[1])
  + ((p[2] - q[2]) * n[2]) * ((p[2] - q[2]) * n[2])
  + ((p[3] - q[3]) * n[3]) * ((p[3] - q[3]) * n[3])

\* error_t.Sum({0, 1}).
RECURSIVE PlaneError(_, _, _)
PlaneError(source_select, target_select, target_n_select) ==
    IF Len(source_select) = 0 THEN 0
    ELSE PlaneRow(source_select[1], target_select[1], target_n_select[1])
         + PlaneError(Tail(source_select), Tail(target_select),
                      Tail(target_n_select))

\* if (!target.HasPointNormals()) return 0.0.
ReturnsZero(a) == ~a.has_normals

\* TransformationEstimationPointToPlane::ComputeRMSE past its checks.
PointToPlaneRMSE(a) ==
    IF ReturnsZero(a) THEN DSqrt(DZero)
    ELSE DSqrt(DDiv(PlaneError(IndexGet(a.source, a.first),
                               IndexGet(a.target, a.second),
                               IndexGet(a.normals, a.second)),
                    Len(a.second)))

\* AssertDtype on both clouds and the comparison of the devices, the first
\* statements of all four functions.
EstimationChecks(a) == a.dtype_ok /\ a.device_ok

\* target.GetPointNormals() on a target that has no normals: the accessor
\* either throws or hands back a tensor that is not the normals.
GetPointNormalsOutcomes(a) ==
    IF a.has_normals THEN {"normals"} ELSE {"throws", "undefined"}

\* The arguments of a call of a TransformationEstimation.
\* Point-to-point: the matched source points are one of three shapes (a
\* triangle, a planar quadrilateral, an octahedron), as they are or moved
\* by (1, 2, 3); the target is the source taken through an orthogonal
\* matrix q (a rotation or a reflection) and moved by t0, stored in the
\* opposite order.
SolverShapes ==
    { << <<-3, -3, 0>>, <<3, -3, 0>>, <<0, 6, 0>> >>,
      << <<2, 0, 0>>, <<-2, 0, 0>>, <<0, 4, 0>>, <<0, -4, 0>> >>,
      << <<6, 0, 0>>, <<-6, 0, 0>>, <<0, 12, 0>>, <<0, -12, 0>>,
         <<0, 0, 18>>, <<0, 0, -18>> >> }

Moved(pts, q, t0) ==
    [k \in 1..Len(pts) |->
        << MatVec3(q, pts[k])[1] + t0[1], MatVec3(q, pts[k])[2] + t0[2],
           MatVec3(q, pts[k])[3] + t0[3] >>]

Reversed(pts) == [k \in 1..Len(pts) |-> pts[Len(pts) + 1 - k]]

NoNormals(pts) == [k \in 1..Len(pts) |-> <<0, 0, 0>>]

SolverArgs ==
    { [strategy |-> "PointToPoint", fn |-> "ComputeTransformation",
       source |-> Moved(shape, Eye3, mv[1]),
       target |-> Reversed(Moved(Moved(shape, Eye3, mv[1]), q, mv[2])),
       normals |-> NoNormals(shape), has_normals |-> FALSE,
       first |-> [k \in 1..Len(shape) |-> k - 1],
       second |-> [k \in 1..Len(shape) |-> Len(shape) - k],
       dtype_ok |-> TRUE, device_ok |-> TRUE] :
        shape \in SolverShapes, q \in Orthogonal3,
        mv \in { << <<0, 0, 0>>, <<0, 0, 0>> >>,
                 << <<1, 2, 3>>, <<1, -2, 3>> >> } }

\* The other three functions: a source of three points, a target of two
\* points with or without normals, one to three correspondences, and the
\* dtype and the device as the checks want them or not.
MetricCorrespondences ==
    { << <<0>>, <<1>> >>, << <<0, 1>>, <<0, 1>> >>,
      << <<0, 1, 2>>, <<1, 0, 1>> >> }

MetricArgs ==
    { [strategy |-> st[1], fn |-> st[2],
       source |-> << <<1, 2, -1>>, <<2, 1, 0>>, <<3, 0, 3>> >>,
       target |-> << <<2, 0, 1>>, <<1, 1, 1>> >>,
       normals |-> IF hn THEN << <<0, 0, 1>>, <<1, -1, 2>> >>
                   ELSE << <<0, 0, 0>>, <<0, 0, 0>> >>,
       has_normals |-> hn,
       first |-> cs[1], second |-> cs[2],
       dtype_ok |-> ok[1], device_ok |-> ok[2]] :
        st \in { <<"PointToPoint", "ComputeRMSE">>,
                 <<"PointToPlane", "ComputeRMSE">>,
                 <<"PointToPlane", "ComputeTransformation">> },
        hn \in BOOLEAN, cs \in MetricCorrespondences,
        ok \in BOOLEAN \X BOOLEAN }

EstimationArgs == SolverArgs \cup MetricArgs

NoEstimationArgs ==
    [strategy |-> "none", fn |-> "none", source |-> << >>, target |-> << >>,
     normals |-> << >>, has_normals |-> FALSE, first |-> << >>,
     second |-> << >>, dtype_ok |-> TRUE, device_ok |-> TRUE]

NoSolve ==
    [U |-> Eye3, D |-> <<0, 0, 0>>, VT |-> Eye3, S |-> Eye3, R |-> Eye3,
     t |-> <<0, 0, 0>>, transformation |-> Eye]

\* What a call has returned: error is "fatal" once it threw, signalled is
\* set if it told its caller that the target has no normals.
NoEstimate ==
    [error |-> "none", signalled |-> FALSE, rmse |-> DSqrt(DZero),
     solve |-> NoSolve, normals_read |-> "none"]

\* Before a TransformationEstimation is called.
EstimationIdle ==
    /\ epc = "idle"
    /\ ein = NoEstimationArgs
    /\ eout = NoEstimate

\* ------------------------------------------ multiscale registration (demo)
\* Largest number of pyramid levels a configuration file gives.
MaxLevels == 2

\* The largest end_range_ of a configuration.
MaxRange == 5

\* Tensor::Inverse of a rigid transformation [R t; 0 1]: [R^T  -R^T t; 0 1].
Inverse(T) ==
    IF T.nan THEN NaNT
    ELSE Mat([r \in 1..4 |-> [c \in 1..4 |->
            IF r = 4 THEN (IF c = 4 THEN 1 ELSE 0)
            ELSE IF c < 4 THEN T.m[c][r]
            ELSE 0 - ( T.m[1][r] * T.m[1][4] + T.m[2][r] * T.m[2][4]
                     + T.m[3][r] * T.m[3][4] )]])

\* The points from the k-th on that are the first of their voxel; the
\* voxel of a point is the floor of each coordinate over the voxel size.
RECURSIVE DownSampleFrom(_, _, _)
DownSampleFrom(pts, voxel_size, k) ==
    IF k > Len(pts) THEN << >>
    ELSE (IF \E j \in 1..(k - 1) : \A x \in 1..3 :
                pts[j][x] \div voxel_size = pts[k][x] \div voxel_size
          THEN << >> ELSE << pts[k] >>)
         \o DownSampleFrom(pts, voxel_size, k + 1)

\* PointCloud::VoxelDownSample: one point of every occupied voxel; a voxel
\* size of -1 stands for no downsampling.
VoxelDownSample(pc_, voxel_size) ==
    IF voxel_size <= 0 \/ pc_.nan THEN pc_
    ELSE [nan |-> FALSE, pts |-> DownSampleFrom(pc_.pts, voxel_size, 1)]

\* The file k.pcd of the dataset.
ReadPointCloud(k) == IF k % 2 = 0 THEN SourceA ELSE TargetA

\* The configuration files: any number of lines of each per-level key (at
\* least one voxel_size, the voxel sizes coarse to fine, the other keys
\* with the same value at each level), a registration method, and whether
\* the files of the dataset can be read and HybridIndex succeeds on them.
ConfigFiles ==
    { [voxel_sizes_         |-> [k \in 1..nv |-> 4 ^ (nv - k)],
       search_radius_       |-> [k \in 1..ns |-> 1],
       max_iterations       |-> [k \in 1..ni |-> 1],
       relative_fitness     |-> [k \in 1..nf |-> Frac(0, 1)],
       relative_rmse        |-> [k \in 1..nr |-> Frac(0, 1)],
       registration_method_ |-> m,
       end_range_           |-> 2,
       files_present        |-> fp,
       index_ok             |-> iok] :
        nv \in 1..MaxLevels, ns \in 0..MaxLevels, ni \in 0..MaxLevels,
        nf \in 0..MaxLevels, nr \in 0..MaxLevels,
        m \in {"PointToPoint", "PointToPlane", "Generalized"},
        fp \in BOOLEAN, iok \in BOOLEAN }

\* icp_scale_levels_ = voxel_sizes_.size().
icp_scale_levels_(c) == Len(c.voxel_sizes_)

\* LengthsMatch without the test of search_radius_.
LengthsMatch_NoRadius(c) ==
    /\ Len(c.max_iterations) = icp_scale_levels_(c)
    /\ Len(c.relative_fitness) = icp_scale_levels_(c)
    /\ Len(c.relative_rmse) = icp_scale_levels_(c)

\* The negation of the condition of the LogError of ReadConfigFile.
LengthsMatch(c) ==
    ~ \/ Len(c.search_radius_) # icp_scale_levels_(c)
      \/ Len(c.max_iterations) # icp_scale_levels_(c)
      \/ Len(c.relative_fitness) # icp_scale_levels_(c)
      \/ Len(c.relative_rmse) # icp_scale_levels_(c)

\* The fatal error ReadConfigFile ends in, "none" if it returns.
ConfigError(c) ==
    IF ~LengthsMatch(c) THEN "lengths"
    ELSE IF c.registration_method_ \notin {"PointToPoint", "PointToPlane"}
    THEN "method"
    ELSE "none"

\* criterias_[k]: ICPConvergenceCriteria(relative_fitness[k],
\* relative_rmse[k], max_iterations[k]).
criterias_(c, k) ==
    [max_iteration_    |-> c.max_iterations[k],
     relative_fitness_ |-> c.relative_fitness[k],
     relative_rmse_    |-> c.relative_rmse[k]]

\* LoadTensorPointClouds: every file read and downsampled with the voxel
\* size of the last level.
LoadTensorPointClouds(c) ==
    [k \in 1..c.end_range_ |->
        VoxelDownSample(ReadPointCloud(k - 1),
                        c.voxel_sizes_[icp_scale_levels_(c)])]

\* SeedOf giving every level the caller's initial transformation.
SeedOf_CallerInit(lv, init, levels_done) == init

\* RegistrationMultiScaleICP: the initial guess of level lv (from 0), the
\* caller's for the first level and the transformation the level before
\* returned for the others.
SeedOf(lv, init, levels_done) ==
    IF lv = 0 THEN init ELSE levels_done[lv]

\* RegistrationMultiScaleICP: the RegistrationICP call of level lv on the
\* pair of clouds source, target.
LevelArgs(c, source, target, lv, seed) ==
    ArgsOf("RegistrationICP", TRUE, TRUE, TRUE, TRUE, TRUE,
           VoxelDownSample(source, c.voxel_sizes_[lv + 1]),
           VoxelDownSample(target, c.voxel_sizes_[lv + 1]),
           seed, c.search_radius_[lv + 1], criterias_(c, lv + 1), c.index_ok)

\* Before the window is constructed.
DemoIdle ==
    /\ dpc = "idle"
    /\ cfg = [voxel_sizes_ |-> << >>, search_radius_ |-> << >>,
              max_iterations |-> << >>, relative_fitness |-> << >>,
              relative_rmse |-> << >>, registration_method_ |-> "",
              end_range_ |-> 0, files_present |-> TRUE, index_ok |-> TRUE]
    /\ pointclouds_device_ = << >>
    /\ frame = -1
    /\ cumulative_transform = Eye
    /\ level = 0
    /\ seeds = << >>
    /\ finals = << >>

\* ------------------------------------------------------------------- Init
AllArgs ==
    { ArgsOf(c, sf, tf, dev, shp, if32, src, tgt, init, maxd, crit, iok) :
        c \in Calls, sf \in BOOLEAN, tf \in BOOLEAN, dev \in BOOLEAN,
        shp \in BOOLEAN, if32 \in BOOLEAN, src \in Sources, tgt \in Targets,
        init \in Inits, maxd \in MaxDists, crit \in Criteria,
        iok \in BOOLEAN }

\* Arguments a rejected call never reads are fixed to one representative,
\* and so are the criteria of EvaluateRegistration, which has none.
Representative(a) ==
    /\ CheckInputs(a) # "none" =>
          /\ a.source = SourceA /\ a.init = Eye
          /\ a.max_correspondence_distance = 1
          /\ a.criteria = DefaultCriteria /\ a.index_ok
    /\ a.call = "EvaluateRegistration" => a.criteria = DefaultCriteria

\* The arguments a call can be made with.
CallArgs == {a \in AllArgs : Representative(a)}

NoHist == [nns_created |-> FALSE, n_call |-> 0, n_index |-> 0,
           n_search |-> 0, n_found |-> 0, n_solve |-> 0, updates |-> << >>]

\* Before the call: no arguments have been passed yet.
NoArgs == ArgsOf("EvaluateRegistration", TRUE, TRUE, TRUE, TRUE, TRUE,
                 SourceA, TargetA, Eye, 1, DefaultCriteria, TRUE)

\* No callback: the value of running.cb and seen.cb before the first one.
NoCallback == [first |-> FALSE, for_i |-> -1, for_cloud |-> -1]

Init ==
    /\ args = NoArgs
    /\ pc = "idle"
    /\ error = "none"
    /\ transformation_device = Eye
    /\ source_transformed = Cloud(<< >>)
    /\ result = RegistrationResult(Eye)
    /\ corres = EmptyCorres
    /\ i = 0
    /\ prev = [fitness_ |-> DZero, inlier_rmse_ |-> DSqrt(DZero)]
    /\ hist = NoHist
    /\ caller = [source |-> NoArgs.source, target |-> NoArgs.target,
                 shares |-> FALSE]
    /\ KernelIdle
    /\ CudaIdle
    /\ EstimationIdle
    /\ DemoIdle
    /\ upc = "idle"
    /\ wcfg = [end_range_ |-> 0, visualize_output_ |-> FALSE]
    /\ update_i = [alive |-> FALSE, value |-> 0]
    /\ mat_alive = FALSE
    /\ pcd_ = -1
    /\ posted = << >>
    /\ running = [busy |-> FALSE, cb |-> NoCallback, cloud1 |-> -1,
                  alive1 |-> FALSE]
    /\ seen = [done |-> FALSE, cb |-> NoCallback, cloud1 |-> -1,
               cloud2 |-> -1, name |-> -1, refs_alive |-> FALSE]

\* ---------------------------------------------------------------- actions
\* The caller calls RegistrationICP or EvaluateRegistration.
Call ==
    /\ pc = "idle"
    /\ \E a \in CallArgs :
          /\ args' = a
          /\ caller' = [source |-> a.source, target |-> a.target,
                        shares |-> FALSE]
    /\ pc' = "entry"
    /\ UNCHANGED <<error, transformation_device, source_transformed, result,
                   corres, i, prev, hist>>
    /\ UNCHANGED beyondR

\* Entry of RegistrationICP and EvaluateRegistration: the precondition
\* checks; LogError throws.
Validate ==
    /\ pc = "entry"
    /\ error' = CheckInputs(args)
    /\ pc' = IF CheckInputs(args) = "none" THEN "setup" ELSE "fatal"
    /\ UNCHANGED <<args, transformation_device, source_transformed, result,
                   corres, i, prev, hist, caller>>
    /\ UNCHANGED beyondR

\* transformation_device = init.To(device); the search object over the
\* target is created; the source is cloned and the clone transformed.
Setup ==
    /\ pc = "setup"
    /\ transformation_device' = args.init
    /\ source_transformed' =
          Transform(WorkingCopy(caller.source).cloud, args.init)
    /\ caller' = [caller EXCEPT
                     !.shares = WorkingCopy(caller.source).shares,
                     !.source = InPlace(@, WorkingCopy(caller.source).shares,
                                        source_transformed')]
    /\ result' = RegistrationResult(args.init)
    /\ hist' = [hist EXCEPT !.nns_created = TRUE]
    /\ pc' = "search0"
    /\ UNCHANGED <<args, error, corres, i, prev>>
    /\ UNCHANGED beyondR

\* Step handing the initial guess on as the transformation of the result.
Step_InitTransformation ==
    GetRegistrationResultAndCorrespondences(
        source_transformed, args.target, args, args.init)

\* Step searching from the source as it was passed.
Step_Untransformed ==
    GetRegistrationResultAndCorrespondences(
        args.source, args.target, args, transformation_device)

\* The correspondence step on the working source under the cumulative
\* transformation, as both callers make it.
Step ==
    GetRegistrationResultAndCorrespondences(
        source_transformed, args.target, args, transformation_device)

\* The bookkeeping of one call of GetRegistrationResultAndCorrespondences:
\* the calls of HybridIndex and of SqueezedHybridSearch, and the results
\* with at least one correspondence.
Searched(r) ==
    [hist EXCEPT !.n_call = @ + 1,
                 !.n_index = @ + (IF r.indexed THEN 1 ELSE 0),
                 !.n_search = @ + (IF r.searched THEN 1 ELSE 0),
                 !.n_found = @ + (IF Len(r.result.correspondence_set.first) > 0
                                  THEN 1 ELSE 0)]

\* The correspondence step before the loop (RegistrationICP) or the one
\* whose result EvaluateRegistration returns.
InitialSearch ==
    /\ pc = "search0"
    /\ hist' = Searched(Step)
    /\ error' = Step.error
    /\ result' = IF Step.error # "none" THEN result ELSE Step.result
    /\ corres' = IF Step.error # "none" THEN corres
                 ELSE Step.result.correspondence_set
    /\ pc' = IF Step.error # "none" THEN "fatal"
             ELSE IF args.call = "RegistrationICP" THEN "loop" ELSE "done"
    /\ i' = 0
    /\ UNCHANGED <<args, transformation_device, source_transformed, prev,
                   caller>>
    /\ UNCHANGED beyondR

\* ComputeUpdate going on to the next iteration without a correspondence
\* step.
ComputeUpdate_NoSearch ==
    /\ pc = "loop"
    /\ LoopCond(i, args.criteria)
    /\ \E update \in ComputeTransformation(source_transformed, args.target,
                                           corres) :
          /\ transformation_device' = Accumulate(update, transformation_device)
          /\ source_transformed' = Transform(source_transformed, update)
          /\ caller' = [caller EXCEPT
                           !.source = InPlace(@, caller.shares,
                                              source_transformed')]
          /\ hist' = [hist EXCEPT !.n_solve = @ + 1,
                                  !.updates = Append(@, update)]
    /\ prev' = [fitness_ |-> result.fitness_,
                inlier_rmse_ |-> result.inlier_rmse_]
    /\ pc' = "loop"
    /\ i' = i + 1
    /\ UNCHANGED <<args, error, result, corres>>
    /\ UNCHANGED beyondR

\* First half of a loop iteration: solve for the update, left-multiply it
\* into the cumulative transformation, transform the working source and
\* remember the previous fitness and RMSE.
ComputeUpdate ==
    /\ pc = "loop"
    /\ LoopCond(i, args.criteria)
    /\ \E update \in ComputeTransformation(source_transformed, args.target,
                                           corres) :
          /\ transformation_device' = Accumulate(update, transformation_device)
          /\ source_transformed' = Transform(source_transformed, update)
          /\ caller' = [caller EXCEPT
                           !.source = InPlace(@, caller.shares,
                                              source_transformed')]
          /\ hist' = [hist EXCEPT !.n_solve = @ + 1,
                                  !.updates = Append(@, update)]
    /\ prev' = [fitness_ |-> result.fitness_,
                inlier_rmse_ |-> result.inlier_rmse_]
    /\ pc' = "search"
    /\ UNCHANGED <<args, error, result, corres, i>>
    /\ UNCHANGED beyondR

\* SearchAndCheck without corres = result.correspondence_set.
SearchAndCheck_StaleCorres ==
    /\ pc = "search"
    /\ hist' = Searched(Step)
    /\ error' = Step.error
    /\ result' = IF Step.error # "none" THEN result ELSE Step.result
    /\ pc' = IF Step.error # "none" THEN "fatal"
             ELSE IF Converged(prev.fitness_, prev.inlier_rmse_,
                               Step.result, args.criteria)
             THEN "done" ELSE "loop"
    /\ i' = IF Step.error = "none"
               /\ ~Converged(prev.fitness_, prev.inlier_rmse_,
                             Step.result, args.criteria)
            THEN i + 1 ELSE i
    /\ UNCHANGED <<args, transformation_device, source_transformed, prev,
                   caller, corres>>
    /\ UNCHANGED beyondR

\* Second half of a loop iteration: the correspondence step on the
\* transformed source, then the convergence test (break) or i++.
SearchAndCheck ==
    /\ pc = "search"
    /\ hist' = Searched(Step)
    /\ error' = Step.error
    /\ result' = IF Step.error # "none" THEN result ELSE Step.result
    /\ corres' = IF Step.error # "none" THEN corres
                 ELSE Step.result.correspondence_set
    /\ pc' = IF Step.error # "none" THEN "fatal"
             ELSE IF Converged(prev.fitness_, prev.inlier_rmse_,
                               Step.result, args.criteria)
             THEN "done" ELSE "loop"
    /\ i' = IF Step.error = "none"
               /\ ~Converged(prev.fitness_, prev.inlier_rmse_,
                             Step.result, args.criteria)
            THEN i + 1 ELSE i
    /\ UNCHANGED <<args, transformation_device, source_transformed, prev,
                   caller>>
    /\ UNCHANGED beyondR

\* The loop condition fails: return result.
Return ==
    /\ pc = "loop"
    /\ ~LoopCond(i, args.criteria)
    /\ pc' = "done"
    /\ UNCHANGED <<args, error, transformation_device, source_transformed,
                   result, corres, i, prev, hist, caller>>
    /\ UNCHANGED beyondR

Next ==
    \/ Call
    \/ Validate
    \/ Setup
    \/ InitialSearch
    \/ ComputeUpdate
    \/ SearchAndCheck
    \/ Return

Spec == Init /\ [][Next]_vars

\* ---------------------------------------------------------- kernel steps
\* A variant of the kernel is called; the runtime splits [0, n) into at
\* most as many subranges as it has workers, and the workers left over
\* get nothing.  ATA and ATB are
\* Zeros (OpenMP) or Empty (TBB, Hybrid); Hybrid also takes its N x 21 and
\* N x 6 scratch from Empty.  The first partial result is the zeroed
\* ata_1x21 and atb_ptr of OpenMP, the zeros_27 handed to parallel_reduce
\* otherwise.
Launch ==
    /\ kpc = "idle"
    /\ \E a \in KernelArgs :
       \E w \in WorkerCounts(a.n), sp \in Splits(0, a.n) :
          /\ Len(sp) <= w
          /\ kin' = a
          /\ ranges' = RangeBag(sp, w - Len(sp), a.n)
          /\ rows' = IF a.variant = "Hybrid"
                     THEN [ata_Nx21 |-> [q \in 1..(a.n * 21) |-> a.garbage],
                           atb_Nx6  |-> [q \in 1..(a.n * 6) |-> a.garbage]]
                     ELSE [ata_Nx21 |-> << >>, atb_Nx6 |-> << >>]
          /\ ATA' = Filled(36, IF a.variant = "OpenMP" THEN 0 ELSE a.garbage)
          /\ ATB' = Filled(6, IF a.variant = "OpenMP" THEN 0 ELSE a.garbage)
          /\ khist' = [workers |-> w, chunks |-> Len(sp), joined |-> FALSE,
                       filled |-> {}]
          /\ kpc' = IF a.variant = "Hybrid" /\ a.n > 0
                    THEN "fill" ELSE "reduce"
    /\ partials' = One(zeros_27)
    /\ UNCHANGED beyondK

\* Hybrid: one iteration of the first parallel loop writes its own row.
FillRow ==
    /\ kpc = "fill"
    /\ \E w \in 0..(kin.n - 1) :
          /\ w \notin khist.filled
          /\ rows' = WriteScratch(rows, kin, w)
          /\ khist' = [khist EXCEPT !.filled = @ \cup {w}]
          /\ kpc' = IF khist.filled \cup {w} = 0..(kin.n - 1)
                    THEN "reduce" ELSE "fill"
    /\ UNCHANGED <<kin, ranges, partials, ATA, ATB>>
    /\ UNCHANGED beyondK

\* What a body invocation on the subrange r adds to running_total.
RunOn(running_total, r) ==
    IF kin.variant = "Hybrid"
    THEN RowsBody(rows, running_total, r[1], r[2])
    ELSE Body(kin, running_total, r[1], r[2])

\* A worker takes a subrange and runs the body on it, starting from the
\* identity (a copy of zeros_27, a private copy set to 0).
BodyFresh ==
    /\ kpc = "reduce"
    /\ \E r \in BagToSet(ranges) :
          /\ partials' = partials (+) One(RunOn(zeros_27, r))
          /\ ranges' = ranges (-) One(r)
    /\ UNCHANGED <<kpc, kin, rows, ATA, ATB, khist>>
    /\ UNCHANGED beyondK

\* A worker takes a further subrange and runs the body on it, starting
\* from the running total it already has.
BodyContinue ==
    /\ kpc = "reduce"
    /\ \E r \in BagToSet(ranges), q \in BagToSet(partials) :
          /\ partials' = (partials (-) One(q)) (+) One(RunOn(q, r))
          /\ ranges' = ranges (-) One(r)
    /\ UNCHANGED <<kpc, kin, rows, ATA, ATB, khist>>
    /\ UNCHANGED beyondK

\* Two partial results are joined.
JoinTwo ==
    /\ kpc = "reduce"
    /\ \E q \in BagToSet(partials) :
       \E r \in BagToSet(partials (-) One(q)) :
          partials' = ((partials (-) One(q)) (-) One(r)) (+) One(Join(q, r))
    /\ khist' = [khist EXCEPT !.joined = TRUE]
    /\ UNCHANGED <<kpc, kin, ranges, rows, ATA, ATB>>
    /\ UNCHANGED beyondK

\* The reduced vector: the one partial result left.
Reduced == CHOOSE q \in BagToSet(partials) : TRUE

\* The reduction is complete: the 21 packed values are copied into both
\* triangles of ATA, and ATB is taken from positions 21..26.
Unpack ==
    /\ kpc = "reduce"
    /\ ranges = EmptyBag
    /\ BagCardinality(partials) = 1
    /\ ATA' = UnpackATA(ATA, Reduced)
    /\ ATB' = IF kin.variant = "OpenMP" THEN SubSeq(Reduced, 22, 27)
              ELSE UnpackATB(ATB, Reduced)
    /\ kpc' = "done"
    /\ UNCHANGED <<kin, ranges, partials, rows, khist>>
    /\ UNCHANGED beyondK

KernelNext ==
    \/ Launch
    \/ FillRow
    \/ BodyFresh
    \/ BodyContinue
    \/ JoinTwo
    \/ Unpack

SpecKernel == Init /\ [][KernelNext]_vars

\* ------------------------------------------------------------ CUDA steps
\* ComputePosePointToPlaneCUDA: global_sum is Zeros({27}) and the kernel is
\* launched on Blocks(n) blocks of THREAD_1D_UNIT threads.
CudaLaunch ==
    /\ cpc = "idle"
    /\ \E n \in CudaSizes :
          /\ cn' = n
          /\ grid' = 0..(Blocks(n) - 1)
    /\ global_sum' = EmptyBag
    /\ cpc' = "launched"
    /\ UNCHANGED beyondC

\* One block runs ComputePosePointToPlaneCUDAKernel to its end.
CudaBlock ==
    /\ cpc = "launched"
    /\ \E b \in grid :
          /\ grid' = grid \ {b}
          /\ global_sum' =
                ReduceSum6x6LinearSystem(global_sum, BlockWorkloads(b, cn))
    /\ UNCHANGED <<cpc, cn>>
    /\ UNCHANGED beyondC

\* cudaDeviceSynchronize returns once every block has run; global_sum goes
\* to DecodeAndSolve6x6.
CudaSynchronize ==
    /\ cpc = "launched"
    /\ grid = {}
    /\ cpc' = "done"
    /\ UNCHANGED <<cn, grid, global_sum>>
    /\ UNCHANGED beyondC

CudaNext ==
    \/ CudaLaunch
    \/ CudaBlock
    \/ CudaSynchronize

SpecCUDA == Init /\ [][CudaNext]_vars

\* ------------------------------------------------------ estimation steps
\* A function of a TransformationEstimation is called.
EstCall ==
    /\ epc = "idle"
    /\ \E a \in EstimationArgs : ein' = a
    /\ epc' = "called"
    /\ UNCHANGED eout
    /\ UNCHANGED beyondE

\* AssertDtype or the device comparison fails: LogError throws.
EstCheckFails ==
    /\ epc = "called"
    /\ ~EstimationChecks(ein)
    /\ eout' = [eout EXCEPT !.error = "fatal"]
    /\ epc' = "done"
    /\ UNCHANGED ein
    /\ UNCHANGED beyondE

\* TransformationEstimationPointToPoint::ComputeTransformation.
EstPointToPointTransformation ==
    /\ epc = "called"
    /\ EstimationChecks(ein)
    /\ ein.strategy = "PointToPoint"
    /\ ein.fn = "ComputeTransformation"
    /\ \E f \in SVD(SxyOfCall(ein)) :
          eout' = [eout EXCEPT !.solve = PointToPointSolve(ein, f)]
    /\ epc' = "solved"
    /\ UNCHANGED ein
    /\ UNCHANGED beyondE

\* The caller applies the transformation to the source and takes
\* TransformationEstimationPointToPoint::ComputeRMSE of the result.
EstRoundTrip ==
    /\ epc = "solved"
    /\ eout' = [eout EXCEPT !.rmse =
                   PointToPointRMSE(
                       Transform(Cloud(ein.source),
                                 eout.solve.transformation).pts,
                       ein.target, ein.first, ein.second)]
    /\ epc' = "done"
    /\ UNCHANGED ein
    /\ UNCHANGED beyondE

\* TransformationEstimationPointToPoint::ComputeRMSE.
EstPointToPointRMSE ==
    /\ epc = "called"
    /\ EstimationChecks(ein)
    /\ ein.strategy = "PointToPoint"
    /\ ein.fn = "ComputeRMSE"
    /\ eout' = [eout EXCEPT !.rmse =
                   PointToPointRMSE(ein.source, ein.target, ein.first,
                                    ein.second)]
    /\ epc' = "done"
    /\ UNCHANGED ein
    /\ UNCHANGED beyondE

\* TransformationEstimationPointToPlane::ComputeRMSE.
EstPointToPlaneRMSE ==
    /\ epc = "called"
    /\ EstimationChecks(ein)
    /\ ein.strategy = "PointToPlane"
    /\ ein.fn = "ComputeRMSE"
    /\ eout' = [eout EXCEPT !.rmse = PointToPlaneRMSE(ein)]
    /\ epc' = "done"
    /\ UNCHANGED ein
    /\ UNCHANGED beyondE

\* TransformationEstimationPointToPlane::ComputeTransformation: without a
\* test of HasPointNormals it passes target.GetPointNormals() to
\* ComputePosePointToPlane and returns PoseToTransformation(pose).  If the
\* accessor throws nothing catches it; otherwise the pose is solved from
\* whatever it handed back, and no return value tells the caller.
EstPointToPlaneTransformation ==
    /\ epc = "called"
    /\ EstimationChecks(ein)
    /\ ein.strategy = "PointToPlane"
    /\ ein.fn = "ComputeTransformation"
    /\ \E o \in GetPointNormalsOutcomes(ein), update \in Updates :
          eout' = [eout EXCEPT
                      !.normals_read = o,
                      !.error = IF o = "throws" THEN "fatal" ELSE "none",
                      !.solve = IF o = "normals"
                                THEN [NoSolve EXCEPT !.transformation = update]
                                ELSE [NoSolve EXCEPT !.transformation = NaNT]]
    /\ epc' = "done"
    /\ UNCHANGED ein
    /\ UNCHANGED beyondE

EstimationNext ==
    \/ EstCall
    \/ EstCheckFails
    \/ EstPointToPointTransformation
    \/ EstRoundTrip
    \/ EstPointToPointRMSE
    \/ EstPointToPlaneRMSE
    \/ EstPointToPlaneTransformation

SpecEstimation == Init /\ [][EstimationNext]_vars

\* -------------------------------------------------------------- demo steps
\* The window is constructed on a configuration file.
DemoStart ==
    /\ dpc = "idle"
    /\ pc = "idle"
    /\ cfg' \in ConfigFiles
    /\ dpc' = "read"
    /\ UNCHANGED <<pointclouds_device_, frame, cumulative_transform, level,
                   seeds, finals>>
    /\ UNCHANGED <<rvars, beyondD>>

\* ReadConfigFile: the lists are read, and LogError throws if their lengths
\* differ or the registration method is not known.
ReadConfigFile ==
    /\ dpc = "read"
    /\ dpc' = IF ConfigError(cfg) # "none" THEN "fatal" ELSE "load"
    /\ UNCHANGED <<cfg, pointclouds_device_, frame, cumulative_transform,
                   level, seeds, finals>>
    /\ UNCHANGED <<rvars, beyondD>>

\* pointclouds_device_ = LoadTensorPointClouds(): LogError if a file
\* cannot be read.
Load ==
    /\ dpc = "load"
    /\ IF cfg.files_present
       THEN /\ pointclouds_device_' = LoadTensorPointClouds(cfg)
            /\ dpc' = "main"
       ELSE /\ dpc' = "fatal"
            /\ UNCHANGED pointclouds_device_
    /\ UNCHANGED <<cfg, frame, cumulative_transform, level, seeds, finals>>
    /\ UNCHANGED <<rvars, beyondD>>

\* UpdateMain up to the warm-up call: the last voxel size becomes -1 and
\* RegistrationMultiScaleICP is called on clouds 0 and 1.
UpdateMainStart ==
    /\ dpc = "main"
    /\ cfg' = [cfg EXCEPT !.voxel_sizes_[icp_scale_levels_(cfg)] = -1]
    /\ cumulative_transform' = Eye
    /\ frame' = -1
    /\ level' = 0
    /\ seeds' = << >>
    /\ finals' = << >>
    /\ dpc' = "multiscale"
    /\ UNCHANGED pointclouds_device_
    /\ UNCHANGED <<rvars, beyondD>>

\* RegistrationMultiScaleICP calls RegistrationICP for the next level.
LevelStart ==
    /\ dpc = "multiscale"
    /\ level < icp_scale_levels_(cfg)
    /\ LET k    == IF frame = -1 THEN 0 ELSE frame
           seed == SeedOf(level, Eye, finals)
           a    == LevelArgs(cfg, pointclouds_device_[k + 1],
                             pointclouds_device_[k + 2], level, seed)
       IN  /\ args' = a
           /\ caller' = [source |-> a.source, target |-> a.target,
                         shares |-> FALSE]
           /\ seeds' = Append(seeds, seed)
    /\ pc' = "entry"
    /\ error' = "none"
    /\ transformation_device' = Eye
    /\ source_transformed' = Cloud(<< >>)
    /\ result' = RegistrationResult(Eye)
    /\ corres' = EmptyCorres
    /\ i' = 0
    /\ prev' = [fitness_ |-> DZero, inlier_rmse_ |-> DSqrt(DZero)]
    /\ hist' = NoHist
    /\ dpc' = "level"
    /\ UNCHANGED <<cfg, pointclouds_device_, frame, cumulative_transform,
                   level, finals>>
    /\ UNCHANGED beyondD

\* RegistrationICP returned: its transformation is the level's.
LevelReturn ==
    /\ dpc = "level"
    /\ pc = "done"
    /\ finals' = Append(finals, result.transformation_)
    /\ level' = level + 1
    /\ dpc' = "multiscale"
    /\ UNCHANGED <<cfg, pointclouds_device_, frame, cumulative_transform,
                   seeds>>
    /\ UNCHANGED <<rvars, beyondD>>

\* RegistrationICP threw: nothing catches it.
LevelFatal ==
    /\ dpc = "level"
    /\ pc = "fatal"
    /\ dpc' = "fatal"
    /\ UNCHANGED <<cfg, pointclouds_device_, frame, cumulative_transform,
                   level, seeds, finals>>
    /\ UNCHANGED <<rvars, beyondD>>

\* RegistrationMultiScaleICP returned the last level's result: after the
\* warm-up the loop over the pairs of clouds starts; in the loop the
\* inverse is multiplied into cumulative_transform and the next pair, if
\* any, is registered.
MultiScaleReturn ==
    /\ dpc = "multiscale"
    /\ level = icp_scale_levels_(cfg)
    /\ cumulative_transform' =
          IF frame = -1 THEN cumulative_transform
          ELSE Matmul(cumulative_transform, Inverse(finals[level]))
    /\ frame' = frame + 1
    /\ dpc' = IF frame + 1 < cfg.end_range_ - 1 THEN "multiscale" ELSE "done"
    /\ level' = IF frame + 1 < cfg.end_range_ - 1 THEN 0 ELSE level
    /\ seeds' = IF frame + 1 < cfg.end_range_ - 1 THEN << >> ELSE seeds
    /\ finals' = IF frame + 1 < cfg.end_range_ - 1 THEN << >> ELSE finals
    /\ UNCHANGED <<cfg, pointclouds_device_>>
    /\ UNCHANGED <<rvars, beyondD>>

DemoNext ==
    \/ DemoStart
    \/ ReadConfigFile
    \/ Load
    \/ UpdateMainStart
    \/ LevelStart
    \/ Validate
    \/ Setup
    \/ InitialSearch
    \/ ComputeUpdate
    \/ SearchAndCheck
    \/ Return
    \/ LevelReturn
    \/ LevelFatal
    \/ MultiScaleReturn

SpecDemo == Init /\ [][DemoNext]_vars

\* ------------------------------------------ demo window: the two threads
\* The update thread runs UpdateMain; the callbacks it hands to
\* PostToMainThread run later on the main thread, in the order posted,
\* while the update thread goes on.  No lock is taken on either side (the
\* lock_guard lines are comments).  A callback holds this and references to
\* mat, pointcloud_mat and i; it is two statements that read pcd_.

\* if (visualize_output_ && i < end_range_ - 3).
Visualized ==
    wcfg.visualize_output_ /\ update_i.value < wcfg.end_range_ - 3

\* The constructor starts update_thread_; UpdateMain creates mat and
\* pointcloud_mat.
WindowStart ==
    /\ upc = "idle"
    /\ \E e \in 3..MaxRange, v \in BOOLEAN :
          wcfg' = [end_range_ |-> e, visualize_output_ |-> v]
    /\ mat_alive' = TRUE
    /\ upc' = "first"
    /\ UNCHANGED <<update_i, pcd_, posted, running, seen>>
    /\ UNCHANGED beyondW

\* if (visualize_output_): pcd_ = pointclouds_device_[0].CPU() and the
\* first callback is posted; then the warm-up registration, and the loop
\* starts with int i = 0.
FirstPost ==
    /\ upc = "first"
    /\ pcd_' = IF wcfg.visualize_output_ THEN 0 ELSE pcd_
    /\ posted' = IF wcfg.visualize_output_
                 THEN Append(posted, [first |-> TRUE, for_i |-> 0,
                                      for_cloud |-> 0])
                 ELSE posted
    /\ update_i' = [alive |-> TRUE, value |-> 0]
    /\ upc' = "loop"
    /\ UNCHANGED <<wcfg, mat_alive, running, seen>>
    /\ UNCHANGED beyondW

\* One pass of the loop body up to the assignment of pcd_: the
\* registration of frame i + 1 and, if visualized,
\* pcd_ = target.Transform(cumulative_transform).CPU().
Iterate ==
    /\ upc = "loop"
    /\ update_i.value < wcfg.end_range_ - 1
    /\ pcd_' = IF Visualized THEN update_i.value + 1 ELSE pcd_
    /\ upc' = "post"
    /\ UNCHANGED <<wcfg, update_i, mat_alive, posted, running, seen>>
    /\ UNCHANGED beyondW

\* PostToMainThread(this, [this, &mat, &pointcloud_mat, &i]() {...}).
Post ==
    /\ upc = "post"
    /\ posted' = IF Visualized
                 THEN Append(posted, [first |-> FALSE,
                                      for_i |-> update_i.value,
                                      for_cloud |-> pcd_])
                 ELSE posted
    /\ upc' = "advance"
    /\ UNCHANGED <<wcfg, update_i, mat_alive, pcd_, running, seen>>
    /\ UNCHANGED beyondW

\* The end of the loop body: i++.
Advance ==
    /\ upc = "advance"
    /\ update_i' = [update_i EXCEPT !.value = @ + 1]
    /\ upc' = "loop"
    /\ UNCHANGED <<wcfg, mat_alive, pcd_, posted, running, seen>>
    /\ UNCHANGED beyondW

\* The loop condition fails and UpdateMain returns: i, mat and
\* pointcloud_mat cease to exist.
UpdateMainReturn ==
    /\ upc = "loop"
    /\ ~(update_i.value < wcfg.end_range_ - 1)
    /\ update_i' = [update_i EXCEPT !.alive = FALSE]
    /\ mat_alive' = FALSE
    /\ upc' = "returned"
    /\ UNCHANGED <<wcfg, pcd_, posted, running, seen>>
    /\ UNCHANGED beyondW

\* The main thread takes the next callback and runs its first statement:
\* AddGeometry(filenames_[0], &pcd_, pointcloud_mat) in the first
\* callback, UpdateGeometry(CURRENT_CLOUD, pcd_, flags) in the others.
CallbackBegin ==
    /\ ~running.busy
    /\ posted # << >>
    /\ running' = [busy |-> TRUE, cb |-> Head(posted), cloud1 |-> pcd_,
                   alive1 |-> (Head(posted).first => mat_alive)]
    /\ posted' = Tail(posted)
    /\ UNCHANGED <<upc, wcfg, update_i, mat_alive, pcd_, seen>>
    /\ UNCHANGED beyondW

\* The second statement and the end of the callback:
\* AddGeometry(CURRENT_CLOUD, pcd_, mat) in the first callback,
\* AddGeometry(filenames_[i], &pcd_, pointcloud_mat) in the others.  A read
\* of i after the loop has ended yields any value.
CallbackEnd ==
    /\ running.busy
    /\ \E v \in (IF running.cb.first THEN {0}
                 ELSE IF update_i.alive THEN {update_i.value}
                 ELSE 0..MaxRange) :
          seen' = [done |-> TRUE, cb |-> running.cb,
                   cloud1 |-> running.cloud1, cloud2 |-> pcd_, name |-> v,
                   refs_alive |-> /\ running.alive1
                                  /\ mat_alive
                                  /\ (running.cb.first \/ update_i.alive)]
    /\ running' = [busy |-> FALSE, cb |-> NoCallback, cloud1 |-> -1,
                   alive1 |-> FALSE]
    /\ UNCHANGED <<upc, wcfg, update_i, mat_alive, pcd_, posted>>
    /\ UNCHANGED beyondW

WindowNext ==
    \/ WindowStart
    \/ FirstPost
    \/ Iterate
    \/ Post
    \/ Advance
    \/ UpdateMainReturn
    \/ CallbackBegin
    \/ CallbackEnd

SpecWindow == Init /\ [][WindowNext]_vars

\* ------------------------------------------------------------ properties
IsICP == args.call = "RegistrationICP"

\* The arguments pass none of / all of the entry checks, read off the
\* arguments themselves.
ArgsGood ==
    /\ args.src_f32 /\ args.tgt_f32 /\ args.same_device
    /\ args.init_shape44 /\ args.init_f32

\* max(0, criteria.max_iteration_).
IterationCap ==
    IF args.criteria.max_iteration_ < 0 THEN 0
    ELSE args.criteria.max_iteration_

FitnessBelow ==
    AbsDiffLess(prev.fitness_, result.fitness_,
                args.criteria.relative_fitness_)

RmseBelow ==
    RootAbsDiffLess(prev.inlier_rmse_, result.inlier_rmse_,
                    args.criteria.relative_rmse_)

\* An upper bound on the number of steps the call can still take: two per
\* remaining loop iteration, plus the steps before and after the loop.
Rank ==
    CASE pc = "idle"    -> 2 * MaxIter + 5
      [] pc = "entry"   -> 2 * IterationCap + 4
      [] pc = "setup"   -> 2 * IterationCap + 3
      [] pc = "search0" -> 2 * IterationCap + 2
      [] pc = "loop"    -> 2 * (IterationCap - i) + 1
      [] pc = "search"  -> 2 * (IterationCap - i)
      [] OTHER          -> 0

\* C1: RegistrationICP terminates: the loop body runs at most
\* max(0, max_iteration) times whatever the search and the solver return
\* (every step of the call lowers a bound on the steps that remain, which
\* never goes below 0), and once the loop condition fails the call returns
\* the result it holds.
C1_Terminates ==
    /\ [](Rank \in Nat /\ hist.n_solve <= IterationCap /\ i <= IterationCap)
    /\ [][Rank' < Rank]_vars
    /\ [][(pc = "loop" /\ ~(i < args.criteria.max_iteration_))
            => (pc' = "done" /\ result' = result /\ error' = "none")]_vars

\* The cap is hit: max_iteration >= 2 iterations ran, none of them
\* converged, and the result is returned.
C1_Witness ==
    /\ IsICP /\ pc = "done"
    /\ args.criteria.max_iteration_ >= 2
    /\ hist.n_solve = args.criteria.max_iteration_
    /\ i = args.criteria.max_iteration_
    /\ ~(FitnessBelow /\ RmseBelow)

\* C2: after at least one iteration, RegistrationICP has left its loop
\* with i < max_iteration exactly when both the fitness delta and the RMSE
\* delta of the last iteration are below their thresholds.
C2_StopIffBothBelow ==
    (IsICP /\ hist.n_solve >= 1 /\ pc \in {"loop", "done"}) =>
        ((pc = "done" /\ i < args.criteria.max_iteration_)
            <=> (FitnessBelow /\ RmseBelow))

\* The fitness delta is below its threshold, the RMSE delta is not, and
\* the loop goes on.
C2_Witness ==
    /\ IsICP /\ pc = "loop" /\ hist.n_solve >= 1
    /\ i < args.criteria.max_iteration_
    /\ FitnessBelow /\ ~RmseBelow

\* update_k * ... * update_1 * init.
RECURSIVE Compose(_, _)
Compose(us, init) ==
    IF Len(us) = 0 THEN init
    ELSE Matmul(us[Len(us)], Compose(SubSeq(us, 1, Len(us) - 1), init))

\* C3: after k solved updates the cumulative transformation is
\* update_k * ... * update_1 * init, the working source is the caller's
\* source transformed by it, and the result of the latest correspondence
\* step (the one returned) carries it.
C3_Cumulative ==
    (IsICP /\ pc \in {"search0", "search", "loop", "done"}) =>
        /\ transformation_device = Compose(hist.updates, args.init)
        /\ source_transformed = Transform(args.source, transformation_device)
        /\ pc \in {"loop", "done"} =>
              result.transformation_ = transformation_device

\* Two updates that do not commute were applied on a non-identity init.
C3_Witness ==
    /\ IsICP /\ pc = "done" /\ Len(hist.updates) = 2
    /\ ~transformation_device.nan
    /\ args.init # Eye
    /\ Matmul(hist.updates[1], hist.updates[2])
         # Matmul(hist.updates[2], hist.updates[1])

C5_ShortCircuit ==
    (ArgsGood /\ args.max_correspondence_distance <= 0) =>
        /\ hist.n_index = 0 /\ hist.n_search = 0
        /\ error = "none" /\ pc # "fatal"
        /\ pc \in {"loop", "done"} =>
              /\ result.correspondence_set = EmptyCorres
              /\ ~result.fitness_.nan /\ result.fitness_.n = 0
              /\ ~result.inlier_rmse_.nan /\ result.inlier_rmse_.rad_n = 0
              /\ result.transformation_ = transformation_device

\* EvaluateRegistration returned with distance 0, a non-identity
\* transformation and an index that could not have been built.
C5_Witness ==
    /\ pc = "done" /\ ~IsICP /\ ArgsGood
    /\ args.max_correspondence_distance = 0
    /\ ~args.index_ok
    /\ args.init # Eye

\* C6: a call whose arguments fail an entry check is aborted by a fatal
\* error before the search object is created, before any correspondence
\* search and any solve; it returns nothing.
C6_FatalAtEntry ==
    ~ArgsGood =>
        /\ pc \in {"entry", "fatal"}
        /\ pc = "fatal" => error \in {"dtype", "device", "shape"}
        /\ ~hist.nns_created
        /\ hist.n_index = 0 /\ hist.n_search = 0 /\ hist.n_solve = 0

\* Aborted on a transformation that is not 4x4, everything else in order.
C6_Witness ==
    /\ pc = "fatal" /\ error = "shape"
    /\ args.src_f32 /\ args.tgt_f32 /\ args.same_device /\ args.init_f32
    /\ ~args.init_shape44

\* C7: when HybridIndex returns false and max_correspondence_distance > 0,
\* the call is aborted by a fatal error, SqueezedHybridSearch is never
\* executed and nothing is returned.
C7_IndexNotReady ==
    (ArgsGood /\ ~args.index_ok /\ args.max_correspondence_distance > 0) =>
        /\ hist.n_search = 0
        /\ pc \in {"entry", "setup", "search0", "fatal"}
        /\ pc = "fatal" => error = "index"

\* RegistrationICP aborted after its one call of HybridIndex.
C7_Witness ==
    /\ IsICP /\ pc = "fatal" /\ error = "index"
    /\ hist.n_index = 1 /\ hist.n_search = 0

\* C8: an iteration of RegistrationICP on an empty correspondence set
\* raises no error, the result it starts from has fitness 0, its update is
\* the identity and the cumulative transformation is unchanged.
C8_EmptyIsIdentity ==
    (IsICP /\ pc = "search" /\ Len(corres.second) = 0) =>
        /\ error = "none"
        /\ ~result.fitness_.nan /\ result.fitness_.n = 0
        /\ hist.updates[Len(hist.updates)] = Eye
        /\ transformation_device = result.transformation_


\* The single-threaded sequential sum: the body run once over the whole
\* of [0, n), starting from zero.
Sequential == Body(kin, zeros_27, 0, kin.n)

\* C9: when the reduction is complete, the 21 AtA entries and the 6 AtB
\* entries it produced are those of the single-threaded sequential sum over
\* all correspondences, whatever the partition of [0, n) into chunks (for
\* 1, 2, 8 or n workers) and whatever the order in which the partial sums
\* were combined; this holds for the OpenMP, TBB and Hybrid variants.
C9_PartitionIndependent ==
    kpc = "done" =>
        /\ Reduced = Sequential
        /\ ATA = UnpackATA(Filled(36, 0), Sequential)
        /\ ATB = SubSeq(Sequential, 22, 27)

\* A call with 8 workers and 3 chunks of one correspondence each, whose
\* partial sums were joined, with a non-zero AtB.
C9_Witness ==
    /\ kpc = "done"
    /\ kin.n = 3
    /\ khist.workers = 8
    /\ khist.chunks = 3
    /\ khist.joined
    /\ ATB # Filled(6, 0)

\* A point (or normal) of a buffer of three floats per point.
PointAt(buf, idx) == <<buf[3 * idx + 1], buf[3 * idx + 2], buf[3 * idx + 3]>>

Cross(u, v) ==
    << u[2] * v[3] - u[3] * v[2],
       u[3] * v[1] - u[1] * v[3],
       u[1] * v[2] - u[2] * v[1] >>

Dot(u, v) == u[1] * v[1] + u[2] * v[2] + u[3] * v[3]

Minus(u, v) == << u[1] - v[1], u[2] - v[2], u[3] - v[3] >>

\* Source point, target point and target normal of correspondence c.
Ps(c) == PointAt(kin.source_points_ptr, kin.correspondence_first[c])
Pt(c) == PointAt(kin.target_points_ptr, kin.correspondence_second[c])
Nt(c) == PointAt(kin.target_normals_ptr, kin.correspondence_second[c])

\* a = [p_s x n_t ; n_t] and b = (p_t - p_s) . n_t of correspondence c.
RowA(c) == Cross(Ps(c), Nt(c)) \o Nt(c)
ResB(c) == Dot(Minus(Pt(c), Ps(c)), Nt(c))

\* The sum of a[r] * a[q] (of a[r] * b for q = 0) over the
\* correspondences c..n, each taken once.
RECURSIVE SumOver(_, _, _)
SumOver(c, r, q) ==
    IF c > kin.n THEN 0
    ELSE RowA(c)[r] * (IF q = 0 THEN ResB(c) ELSE RowA(c)[q])
         + SumOver(c + 1, r, q)

\* C10: the system the kernel hands to the solver has, in every one of its
\* 36 entries, AtA[r][q] = the sum over the n correspondences of a[r] * a[q]
\* and AtB[r] = the sum of a[r] * b, with a = [p_s x n_t ; n_t] and
\* b = (p_t - p_s) . n_t, each correspondence counted exactly once.
C10_NormalEquations ==
    kpc = "done" =>
        /\ \A r \in 1..6 : \A q \in 1..6 :
              ATA[(r - 1) * 6 + q] = SumOver(1, r, q)
        /\ \A r \in 1..6 : ATB[r] = SumOver(1, r, 0)

\* A completed call on two or more correspondences that use both target
\* points, with non-zero entries in the cross-product part of AtA and AtB.
C10_Witness ==
    /\ kpc = "done"
    /\ kin.n >= 2
    /\ \E c \in 1..kin.n : kin.correspondence_second[c] = 0
    /\ \E c \in 1..kin.n : kin.correspondence_second[c] = 1
    /\ ATA[1] # 0
    /\ ATA[2] # 0
    /\ ATB[1] # 0


\* C11: when the CUDA call has synchronised, global_sum holds the terms of
\* every workload index 0..n-1 exactly once (as the CPU reduction does), and
\* no term of an index >= n.
C11_EachIndexOnce ==
    cpc = "done" => global_sum = SetToBag(0..(cn - 1))


\* A finished call of the point-to-point ComputeTransformation.
IsSolved ==
    /\ epc \in {"solved", "done"}
    /\ ein.strategy = "PointToPoint"
    /\ ein.fn = "ComputeTransformation"

Corrected3 == << <<1, 0, 0>>, <<0, 1, 0>>, <<0, 0, -1>> >>

\* C12: for three or more non-collinear matched points, whichever factors
\* the SVD returns, the rotation block R = U * S * VT of the point-to-point
\* solver has det(R) = +1 and R^T R = I, and S is diag(1, 1, -1) exactly
\* when det(U) * det(VT^T) < 0 and the identity otherwise.
C12_ProperRotation ==
    IsSolved =>
        /\ Det3(eout.solve.R) = 1
        /\ Matmul3(T3(eout.solve.R), eout.solve.R) = Eye3
        /\ eout.solve.R = Matmul3(eout.solve.U,
                                  Matmul3(eout.solve.S, eout.solve.VT))
        /\ IF Det3(eout.solve.U) * Det3(T3(eout.solve.VT)) < 0
           THEN eout.solve.S = Corrected3
           ELSE eout.solve.S = Eye3

\* The solver ran on the octahedron and its mirror image, the SVD returned
\* factors with det(U) * det(VT^T) < 0 and no zero singular value, and the
\* correction was applied.
C12_Witness ==
    /\ IsSolved
    /\ Len(ein.first) = 6
    /\ eout.solve.D[3] > 0
    /\ Det3(eout.solve.U) * Det3(T3(eout.solve.VT)) < 0
    /\ eout.solve.S = Corrected3

\* The matched target points are a rotation of the matched source points
\* about their means.
RigidlyRelated ==
    LET source_select == IndexGet(ein.source, ein.first)
        target_select == IndexGet(ein.target, ein.second)
        mux == Mean(source_select)
        muy == Mean(target_select)
    IN  \E rot \in Rotations3 :
           \A k \in 1..Len(source_select) :
              Minus(target_select[k], muy) =
                  MatVec3(rot, Minus(source_select[k], mux))

\* C13: when the matched target points are an exact rigid transform of the
\* matched source points (three or more, non-collinear), the transformation
\* returned by the point-to-point solver maps every matched source point
\* onto its target point, whichever factors the SVD returns, and the
\* point-to-point RMSE of the transformed source is 0.
C13_RoundTrip ==
    (IsSolved /\ epc = "done" /\ RigidlyRelated) =>
        /\ \A k \in 1..Len(ein.first) :
              TransformPoint(eout.solve.transformation,
                             ein.source[ein.first[k] + 1])
                  = ein.target[ein.second[k] + 1]
        /\ eout.rmse = DSqrt(DDiv(0, Len(ein.second)))

\* A round trip through a rotation other than the identity, with source
\* points whose mean is not the origin and a translation that is not zero.
C13_Witness ==
    /\ IsSolved
    /\ epc = "done"
    /\ RigidlyRelated
    /\ eout.solve.R # Eye3
    /\ Mean(IndexGet(ein.source, ein.first)) # <<0, 0, 0>>
    /\ eout.solve.t # <<0, 0, 0>>
    /\ eout.rmse = DSqrt(DDiv(0, Len(ein.second)))

\* ((p - q) . n)^2: the square of the dot product of the offset of two
\* points with the normal.
PlaneRow_Dot(p, q, n) ==
    ((p[1] - q[1]) * n[1] + (p[2] - q[2]) * n[2] + (p[3] - q[3]) * n[3])
  * ((p[1] - q[1]) * n[1] + (p[2] - q[2]) * n[2] + (p[3] - q[3]) * n[3])

RECURSIVE PlaneDotError(_, _, _)
PlaneDotError(source_select, target_select, target_n_select) ==
    IF Len(source_select) = 0 THEN 0
    ELSE PlaneRow_Dot(source_select[1], target_select[1], target_n_select[1])
         + PlaneDotError(Tail(source_select), Tail(target_select),
                         Tail(target_n_select))

\* C14: with normals on the target, the point-to-plane ComputeRMSE returns
\* sqrt((1 / C) * the sum over the C correspondences of
\* ((p_s - p_t) . n_t)^2).
C14_PlaneRMSE ==
    (/\ epc = "done"
     /\ ein.strategy = "PointToPlane"
     /\ ein.fn = "ComputeRMSE"
     /\ ein.has_normals
     /\ eout.error = "none") =>
        eout.rmse =
            DSqrt(DDiv(PlaneDotError(IndexGet(ein.source, ein.first),
                                     IndexGet(ein.target, ein.second),
                                     IndexGet(ein.normals, ein.second)),
                       Len(ein.second)))

\* C15: with a target that has no normals and the dtype and device checks
\* passed, the point-to-plane ComputeRMSE returns 0 without an error, and
\* the point-to-plane ComputeTransformation ends without a fatal error and
\* with the missing normals signalled to its caller.
C15_NoNormalsSignalled ==
    (/\ epc = "done"
     /\ ein.strategy = "PointToPlane"
     /\ ~ein.has_normals
     /\ EstimationChecks(ein)) =>
        /\ eout.error = "none"
        /\ ein.fn = "ComputeRMSE" => eout.rmse = DSqrt(DZero)
        /\ ein.fn = "ComputeTransformation" => eout.signalled


\* C16: once RegistrationICP has set up the index over the target
\* (HybridIndex has been called for the first correspondence step), no
\* later step of the call sets it up again, and the target stays as it is.
C16_IndexReadOnly ==
    [][(IsICP /\ hist.n_index >= 1) =>
          (hist'.n_index = hist.n_index /\ caller'.target = caller.target)]_vars

\* C17: during and after a call of RegistrationICP or EvaluateRegistration
\* the caller's source and target hold the points they were passed with,
\* after every number of iterations and also when the call ended in a
\* fatal error; only the working copy is transformed.
C17_InputsUntouched ==
    pc # "idle" =>
        /\ caller.source = args.source
        /\ caller.target = args.target
        /\ ~caller.shares

\* A registration that returned after two iterations, its working copy no
\* longer where the source is.
C17_Witness ==
    /\ IsICP
    /\ pc = "done"
    /\ hist.n_solve = 2
    /\ ~source_transformed.nan
    /\ source_transformed # args.source
    /\ caller.source = args.source


\* The five per-level lists of a configuration have one length.
AllSameLength(c) ==
    Cardinality({ Len(c.voxel_sizes_), Len(c.search_radius_),
                  Len(c.max_iterations), Len(c.relative_fitness),
                  Len(c.relative_rmse) }) = 1

\* C18: a configuration whose per-level lists (voxel sizes, search radii,
\* max iterations, relative fitness, relative RMSE) are not all of the same
\* length ends in a fatal error in ReadConfigFile: no point cloud has been
\* loaded or downsampled and no ICP level has been started.
C18_MismatchFatalFirst ==
    (dpc \notin {"idle", "read"} /\ ~AllSameLength(cfg)) =>
        /\ dpc = "fatal"
        /\ pointclouds_device_ = << >>
        /\ seeds = << >>
        /\ pc = "idle"

\* A configuration with two voxel sizes and one relative RMSE, rejected.
C18_Witness ==
    /\ dpc = "fatal"
    /\ Len(cfg.voxel_sizes_) = 2
    /\ Len(cfg.relative_rmse) = 1
    /\ Len(cfg.search_radius_) = 2
    /\ pointclouds_device_ = << >>

\* C19: the levels of a multiscale registration run one after another in
\* the order of the lists: while level k runs, and after it has returned,
\* exactly the levels before it have returned their transformations, the
\* first level was started from the caller's initial transformation (the
\* identity UpdateMain passes) and every other level from the
\* transformation the level before it returned.
C19_LevelsSeeded ==
    dpc \in {"multiscale", "level", "done"} =>
        /\ Len(finals) = level
        /\ Len(seeds) = (IF dpc = "level" THEN level + 1 ELSE level)
        /\ \A k \in 1..Len(seeds) :
              seeds[k] = (IF k = 1 THEN Eye ELSE finals[k - 1])
        /\ dpc = "level" => args.init = seeds[level + 1]

\* The second level of a registration in the loop is running, started from
\* what the first level returned, which is not the identity.
C19_Witness ==
    /\ dpc = "level"
    /\ frame = 0
    /\ level = 1
    /\ pc = "loop"
    /\ finals[1] # Eye
    /\ ~finals[1].nan
    /\ args.init = finals[1]


\* C20: the correspondence set a correspondence step leaves behind is two
\* index sequences of one length C <= N_source; no source index occurs
\* twice, every source and target index is one of a point of the searched
\* source and of the target (counted from 1 here), and the two points of
\* every pair are at most max_correspondence_distance apart.
C20_CorrespondenceSet ==
    pc \in {"loop", "done"} =>
        LET first  == corres.first
            second == corres.second
            maxd   == args.max_correspondence_distance
        IN  /\ Len(first) = Len(second)
            /\ Len(first) <= NumPoints(source_transformed)
            /\ \A k \in 1..Len(first) :
                  /\ first[k] \in 1..NumPoints(source_transformed)
                  /\ second[k] \in 1..NumPoints(args.target)
                  /\ SqDist(source_transformed.pts[first[k]],
                            args.target.pts[second[k]]) <= maxd * maxd
            /\ \A j \in 1..Len(first) : \A k \in 1..Len(first) :
                  j # k => first[j] # first[k]

\* After an update, a search that kept one of the two source points.
C20_Witness ==
    /\ IsICP
    /\ pc = "loop"
    /\ i >= 1
    /\ NumPoints(source_transformed) = 2
    /\ Len(corres.first) = 1
    /\ corres.first[1] # corres.second[1]


FreshCorres ==
    IF NoSearch(args.max_correspondence_distance) THEN EmptyCorres
    ELSE [first  |-> SqueezedHybridSearch(source_transformed, args.target,
                         args.max_correspondence_distance).first,
          second |-> SqueezedHybridSearch(source_transformed, args.target,
                         args.max_correspondence_distance).second]

\* C22: whenever RegistrationICP is at the head of its loop, where the
\* solver is called next, the correspondence set the solver will be given
\* is the one of the working source as it is now, found under the
\* cumulative transformation as it is now; and the solve is the first step
\* to change either of them.
C22_NeverStale ==
    /\ [][(IsICP /\ pc = "loop") =>
             /\ corres = FreshCorres
             /\ result.correspondence_set = corres
             /\ result.transformation_ = transformation_device
             /\ source_transformed
                  = Transform(args.source, transformation_device)]_vars
    /\ [][(IsICP /\ pc \in {"search0", "search"} /\ pc' = "loop") =>
             /\ source_transformed' = source_transformed
             /\ transformation_device' = transformation_device
             /\ corres' = FreshCorres']_vars

\* The second iteration is about to solve from a set that differs from the
\* initial one.
C22_Witness ==
    /\ IsICP /\ pc = "loop"
    /\ i = 1 /\ LoopCond(i, args.criteria)
    /\ Len(corres.first) = 1
    /\ hist.n_found = 2


\* What EvaluateRegistration(source, target, max_correspondence_distance,
\* transformation = init) of the arguments a does: the correspondence step
\* on the source transformed by init.
EvaluateOutcome(a) ==
    GetRegistrationResultAndCorrespondences(
        Transform(a.source, a.init), a.target, a, a.init)

\* C23: a RegistrationICP call with max_iteration <= 0 makes no solve and
\* ends as EvaluateRegistration ends on the same source, target and
\* distance with init as the transformation: with the same result
\* (transformation init, and the correspondence set, fitness and RMSE of
\* the source transformed by init), or with the same fatal error.
C23_ZeroIterationsIsEvaluate ==
    (pc \in {"done", "fatal"}
         /\ (~IsICP \/ args.criteria.max_iteration_ <= 0)) =>
        /\ hist.n_solve = 0
        /\ error = EvaluateOutcome(args).error
        /\ pc = "done" =>
              /\ error = "none"
              /\ result = EvaluateOutcome(args).result
              /\ result.transformation_ = args.init
              /\ transformation_device = args.init

\* RegistrationICP returned with max_iteration -1, a non-identity init and
\* a correspondence found.
C23_Witness ==
    /\ IsICP /\ pc = "done"
    /\ args.criteria.max_iteration_ = -1
    /\ args.init # Eye
    /\ Len(result.correspondence_set.first) >= 1
    /\ hist.n_solve = 0


\* The elements of the scratch arrays that work item w writes.
ScratchSlots(w) ==
    { <<"ata_Nx21", Slot(w, 21, c)>> : c \in 0..20 } \cup
    { <<"atb_Nx6", Slot(w, 6, c)>> : c \in 0..5 }

\* The elements of the scratch arrays that differ between r and s.
ChangedSlots(r, s) ==
    { <<"ata_Nx21", q - 1>> : q \in { p \in 1..Len(r.ata_Nx21) :
                                      r.ata_Nx21[p] # s.ata_Nx21[p] } } \cup
    { <<"atb_Nx6", q - 1>> : q \in { p \in 1..Len(r.atb_Nx6) :
                                     r.atb_Nx6[p] # s.atb_Nx6[p] } }

\* C24: in the parallel part of a kernel call no element of memory is
\* written for two work items or by two workers.  The source, target,
\* normal and correspondence arrays are never written.  In the first loop
\* of Hybrid a work item writes elements of the scratch arrays that no
\* other work item writes, and leaves the rows written before as they
\* are.  A body of the reduction changes one accumulator, a new one or the
\* one it continues, and no other; the scratch arrays, ATA and ATB are not
\* written while the reduction runs, ATA and ATB only after it.
C24_NoSharedWrites ==
    /\ [](\A v \in khist.filled : \A w \in khist.filled :
             v # w => ScratchSlots(v) \cap ScratchSlots(w) = {})
    /\ [][kpc # "idle" => kin' = kin]_vars
    /\ [][kpc = "fill" =>
             /\ \E w \in khist'.filled \ khist.filled :
                   /\ khist'.filled = khist.filled \cup {w}
                   /\ ChangedSlots(rows, rows') \subseteq ScratchSlots(w)
                   /\ ReadRow(rows', w) = ScratchRow(kin, w)
             /\ \A v \in khist.filled : ReadRow(rows', v) = ReadRow(rows, v)
             /\ partials' = partials /\ ATA' = ATA /\ ATB' = ATB]_vars
    /\ [][(kpc = "reduce" /\ kpc' = "reduce") =>
             /\ rows' = rows /\ ATA' = ATA /\ ATB' = ATB
             /\ ranges' # ranges =>
                   \/ partials \sqsubseteq partials'
                   \/ \E q \in BagToSet(partials) :
                         /\ (partials (-) One(q)) \sqsubseteq partials'
                         /\ BagCardinality(partials')
                              = BagCardinality(partials)]_vars

\* A Hybrid call on three correspondences: the three rows were written,
\* the reduction ran on more than one subrange and was joined.
C24_Witness ==
    /\ kin.variant = "Hybrid" /\ kpc = "done"
    /\ kin.n = 3
    /\ khist.filled = {0, 1, 2}
    /\ khist.chunks >= 2 /\ khist.joined
    /\ kin.garbage # 0


\* C25: when a kernel call has unpacked its reduced vector, the loop has
\* visited the 21 pairs (j, k), 0 <= k <= j <= 5, once each, in the order
\* of their packed positions 0..20; every one of the 36 entries of ATA
\* holds the packed value of its pair (whatever ATA held before), so
\* ATA[j][k] = ATA[k][j]; and ATB holds the packed values 21..26.
C25_UnpackTotalSymmetric ==
    LET Packed(j, k) == (j * (j + 1)) \div 2 + k
    IN kpc = "done" =>
        /\ Len(PackOrder) = 21
        /\ \A q \in 1..21 :
              /\ PackOrder[q][2] <= PackOrder[q][1]
              /\ Packed(PackOrder[q][1], PackOrder[q][2]) = q - 1
        /\ \A j \in 0..5 : \A k \in 0..5 :
              /\ ATA[j * 6 + k + 1] = ATA[k * 6 + j + 1]
              /\ ATA[j * 6 + k + 1] =
                    Reduced[Packed(IF j >= k THEN j ELSE k,
                                   IF j >= k THEN k ELSE j) + 1]
        /\ \A j \in 0..5 : ATB[j + 1] = Reduced[21 + j + 1]

\* A TBB call on three correspondences whose ATA and ATB came from Empty
\* with other content, unpacked to a matrix with off-diagonal entries.
C25_Witness ==
    /\ kpc = "done" /\ kin.variant = "TBB"
    /\ kin.garbage = 7 /\ kin.n = 3
    /\ \E j \in 0..5 : \E k \in 0..5 :
          j # k /\ ATA[j * 6 + k + 1] \notin {0, 7}
    /\ \E j \in 0..5 : ATB[j + 1] \notin {0, 7}


\* C26: the result RegistrationICP returns is consistent.  Its
\* transformation is the cumulative one, the working source is the source
\* passed in transformed by it, and its correspondence set, fitness and
\* RMSE are those of the correspondence step on that source: the last one
\* made.  This holds when the loop ran out and when the convergence test
\* stopped it.
C26_ReturnedConsistent ==
    (IsICP /\ pc = "done") =>
        /\ result.transformation_ = transformation_device
        /\ source_transformed = Transform(args.source, result.transformation_)
        /\ corres = result.correspondence_set
        /\ result = GetRegistrationResultAndCorrespondences(
                        Transform(args.source, result.transformation_),
                        args.target, args, result.transformation_).result

\* The convergence test stopped the loop in its first iteration, after an
\* update that moved the source, with a correspondence found.
C26_Witness ==
    /\ IsICP /\ pc = "done"
    /\ i = 0 /\ IterationCap = 2
    /\ hist.n_solve = 1
    /\ result.transformation_ # args.init
    /\ Len(result.correspondence_set.first) >= 1


\* C27: in a RegistrationICP call the correspondence steps and the solves
\* alternate strictly, beginning and ending with a correspondence step.
\* At the head of the loop and at the return k solves have been made and
\* k + 1 correspondence steps; between a solve and its correspondence
\* step, k and k.  A solve is followed by a correspondence step, a
\* correspondence step is never followed by another, and the step that
\* ends the call (the convergence test firing, or the loop running out)
\* makes no solve.
C27_Alternation ==
    /\ [](IsICP =>
            /\ pc \in {"loop", "done"} => hist.n_call = hist.n_solve + 1
            /\ pc = "search" => hist.n_call = hist.n_solve
            /\ pc = "done" => hist.n_solve \in {i, i + 1})
    /\ [][(IsICP /\ hist'.n_solve # hist.n_solve) =>
             /\ hist'.n_solve = hist.n_solve + 1
             /\ hist'.n_call = hist.n_call
             /\ pc' = "search"]_vars
    /\ [][(IsICP /\ hist'.n_call # hist.n_call) =>
             /\ hist'.n_call = hist.n_call + 1
             /\ hist'.n_solve = hist.n_solve
             /\ pc \in {"search0", "search"}
             /\ pc' \in {"loop", "done", "fatal"}]_vars
    /\ [][(IsICP /\ pc # "done" /\ pc' = "done") =>
             hist'.n_solve = hist.n_solve]_vars

\* The convergence test stopped the loop in its second iteration: two
\* solves, three correspondence steps.
C27_Witness ==
    /\ IsICP /\ pc = "done"
    /\ i = 1 /\ IterationCap = 2
    /\ hist.n_solve = 2 /\ hist.n_call = 3
    /\ hist.n_search = 3


\* C28: the convergence test compares strictly.  A RegistrationICP call
\* with relative_fitness = 0 or relative_rmse = 0 never stops on the test:
\* when it has returned it has made exactly max(0, max_iteration)
\* iterations.  And whenever the test did stop the loop, both thresholds
\* were positive and the RMSE before and after the last iteration were
\* both defined.
C28_StrictComparison ==
    (IsICP /\ pc = "done") =>
        /\ (\/ args.criteria.relative_fitness_.p = 0
            \/ args.criteria.relative_rmse_.p = 0) =>
               /\ i = IterationCap
               /\ hist.n_solve = IterationCap
               /\ hist.n_call = IterationCap + 1
        /\ i < IterationCap =>
               /\ args.criteria.relative_fitness_.p > 0
               /\ args.criteria.relative_rmse_.p > 0
               /\ ~prev.inlier_rmse_.nan
               /\ ~result.inlier_rmse_.nan

\* Two iterations completed with relative_fitness = 0, the last of which
\* left the fitness as it was and the RMSE within its threshold.
C28_Witness ==
    /\ IsICP /\ pc = "done"
    /\ args.criteria.relative_fitness_.p = 0
    /\ args.criteria.relative_rmse_.p > 0
    /\ IterationCap = 2 /\ hist.n_solve = 2
    /\ prev.fitness_ = result.fitness_
    /\ result.fitness_.n > 0
    /\ RmseBelow


\* Hybrid, the whole first loop on arguments a: every work item from w on
\* writes its row of the scratch arrays rws.
RECURSIVE ScratchLoop(_, _, _)
ScratchLoop(rws, a, w) ==
    IF w >= a.n THEN rws
    ELSE ScratchLoop(WriteScratch(rws, a, w), a, w + 1)

\* The packed vector that variant v assembles from the arguments a when
\* one worker does all the work, and the system it hands to Solve.
Assembled(v, a) ==
    IF v = "Hybrid"
    THEN RowsBody(ScratchLoop([ata_Nx21 |-> [q \in 1..(a.n * 21) |-> a.garbage],
                               atb_Nx6  |-> [q \in 1..(a.n * 6) |-> a.garbage]],
                              a, 0),
                  zeros_27, 0, a.n)
    ELSE Body(a, zeros_27, 0, a.n)

SystemOf(v, a) ==
    [ATA |-> UnpackATA(Filled(36, IF v = "OpenMP" THEN 0 ELSE a.garbage),
                       Assembled(v, a)),
     ATB |-> IF v = "OpenMP" THEN SubSeq(Assembled(v, a), 22, 27)
             ELSE UnpackATB(Filled(6, a.garbage), Assembled(v, a))]

\* C29: the CPU variants are interchangeable.  When a call of one variant
\* has assembled its system, however its work was split, the packed vector
\* and the AtA and AtB it holds are the ones each of the three variants
\* assembles from the same points, normals and correspondences, whatever
\* its output tensors and scratch arrays held before.  (Both definitions
\* of ComputePosePointToPlaneCPU run the OpenMP loop.)
C29_VariantsAgree ==
    kpc = "done" =>
        \A v \in Variants : \A g \in Garbage :
            /\ Assembled(v, [kin EXCEPT !.garbage = g]) = Reduced
            /\ SystemOf(v, [kin EXCEPT !.garbage = g])
                 = [ATA |-> ATA, ATB |-> ATB]

\* A completed OpenMP call on three correspondences, split in two chunks,
\* with a non-zero system, which Hybrid assembles from scratch arrays
\* that held 7.
C29_Witness ==
    /\ kpc = "done" /\ kin.variant = "OpenMP"
    /\ kin.n = 3 /\ khist.chunks = 2
    /\ ATB # Filled(6, 0)
    /\ ATA = SystemOf("Hybrid", [kin EXCEPT !.garbage = 7]).ATA
    /\ ATA = SystemOf("TBB", [kin EXCEPT !.garbage = 7]).ATA


\* C30: a callback run on the main thread sees the data of the frame it
\* was posted for.  Both of its statements read from pcd_ the cloud that
\* pcd_ held when the callback was posted, the index i it reads is the one
\* of the iteration that posted it, and mat, pointcloud_mat and i still
\* exist when it reads them; and while a callback is running the update
\* thread does not assign pcd_.
C30_CallbackSeesItsFrame ==
    /\ [](seen.done =>
            /\ seen.cloud1 = seen.cb.for_cloud
            /\ seen.cloud2 = seen.cb.for_cloud
            /\ seen.name = seen.cb.for_i
            /\ seen.refs_alive)
    /\ [][running.busy => pcd_' = pcd_]_vars

====
